---- MODULE Spec2Model ----
(***************************************************************************)
(* LP-store profitability pipeline of the EVE Online market scripts:       *)
(* allmarkets+global.py (console script, variant "script") and app/app.py  *)
(* (Flask application, variant "app").                                     *)
(*                                                                         *)
(* Numbers.  Python mixes ints and floats; the model keeps every quantity  *)
(* that can be fractional (prices, profits, ratios) as an exact rational   *)
(* <<n, d>> in lowest terms with d > 0, and float('inf') as <<1, 0>>.      *)
(* Float rounding is not modelled.                                         *)
(*                                                                         *)
(* Dicts are functions whose domain is the set of keys present, so that    *)
(* d.get(k, default) and a KeyError on d[k] are both expressible.          *)
(***************************************************************************)
EXTENDS Integers, Sequences, FiniteSets, TLC

(***************************************************************************)
(* Bounds of the model                                                     *)
(***************************************************************************)
\* longest raw offer list drawn for the offer filter on its own
MaxRawOffers == 2
\* longest offer list answered by the offers endpoint in a pipeline run
MaxOffers == 2
\* how many entries of MARKETS (in dict order) a pipeline run iterates over
NumMarkets == 2
\* longest result list handed to the construction of a view on its own
MaxRows == 3
\* how many accepted offers a run with many offers has
MaxRegionOffers == 17
\* longest history answer handed to the statistics on their own
MaxDays == 3
\* longest order book handed to the order lookup on its own
MaxBook == 3

\* longest table (after its header) answered to BPs.py
MaxTsvRows == 2

\* how many recent records follow the old ones in a history answered to
\* get_historical_average_price
MaxRecent == 2

\* how many requests the web application serves in a run
MaxRequests == 3

\* longest required_items list handed to the variants of is_material_required
MaxRequired == 3

\* how many items the pure-trading analysis has in a run with many items
MaxTradingItems == 6

(***************************************************************************)
(* Program constants                                                       *)
(***************************************************************************)
TYPE_ID_ISK == 58
VOLUME_DAYS == 10
HISTORY_DAYS == 30
MIN_ISK_PER_LP_FILTER_LOW == 1000
MIN_ISK_PER_LP_FILTER_HIGH == 2000
TOP_N_REGIONAL == 15
TOP_N_GLOBAL == 25
TOP_N_VOLUME_FILTER == 25
TOP_N_TRADING == 5
MARKETS == <<"Jita", "Dodixie", "Amarr", "Hek">>

INDEX_CORPID == 1
INDEX_TYPEID == 2
INDEX_QUANTITY == 3
INDEX_LPCOST == 4
INDEX_AKCOST == 5
INDEX_ISKCOST == 6
FDU_CORP_ID == "1000181"

(***************************************************************************)
(* Exact rationals, with <<1, 0>> for float('inf')                         *)
(***************************************************************************)
Abs(x) == IF x < 0 THEN -x ELSE x

RECURSIVE Gcd(_, _)
Gcd(a, b) == IF b = 0 THEN a ELSE Gcd(b, a % b)

\* the rational n/d (d # 0) in lowest terms with a positive denominator
Rat(n, d) ==
    LET g == Gcd(Abs(n), Abs(d))
        s == IF d < 0 THEN -1 ELSE 1
    IN  <<s * (n \div g), s * (d \div g)>>

Int2Rat(n) == <<n, 1>>
Zero == <<0, 1>>
Inf == <<1, 0>>

IsFinite(q) == q[2] # 0
RLess(p, q) == p[1] * q[2] < q[1] * p[2]
RLeq(p, q) == p[1] * q[2] <= q[1] * p[2]
RGreater(p, q) == RLess(q, p)
RGeq(p, q) == RLeq(q, p)
RPos(q) == q[1] > 0
RSub(p, q) == Rat(p[1] * q[2] - q[1] * p[2], p[2] * q[2])
RMulInt(p, k) == Rat(p[1] * k, p[2])
RDivInt(p, k) == Rat(p[1], p[2] * k)

(***************************************************************************)
(* Python dict helpers                                                     *)
(***************************************************************************)
\* d.get(k, default)
Get(d, k, default) == IF k \in DOMAIN d THEN d[k] ELSE default

\* d[k] = v
Put(d, k, v) == [x \in (DOMAIN d) \cup {k} |-> IF x = k THEN v ELSE d[x]]

\* Python's None / "no exception", where the other values are strings
NoError == "None"

(***************************************************************************)
(* Offers.  An offer is a dict with the keys the API sent; required_items  *)
(* is a sequence of dicts.                                                 *)
(***************************************************************************)
IskEntry == [type_id |-> TYPE_ID_ISK, quantity |-> 1000000]
MatEntry == [type_id |-> 34, quantity |-> 10]
\* a required-item entry that carries no type_id
NoIdEntry == [quantity |-> 1]

RequiredItemsPool ==
    { <<>>, <<IskEntry>>, <<IskEntry, IskEntry>>, <<MatEntry>>,
      <<IskEntry, MatEntry>>, <<MatEntry, IskEntry>>, <<NoIdEntry>> }

\* raw offers for the filter: lp_cost absent, 0 or positive; isk_cost 0 or
\* positive; required_items absent or any of RequiredItemsPool
RawOfferPool ==
    LET base == { [type_id |-> 1, isk_cost |-> c] : c \in {0, 1000000} }
        withLp == base \cup { Put(o, "lp_cost", l) : o \in base, l \in {0, 5000} }
    IN  withLp \cup { Put(o, "required_items", r) : o \in withLp, r \in RequiredItemsPool }

\* all sequences over S of length at most n
SeqsUpTo(S, n) == UNION { [1..k -> S] : k \in 0..n }

(***************************************************************************)
(* is_material_required                                                    *)
(***************************************************************************)
\* item.get('type_id') != TYPE_ID_ISK  (None != 58 when the key is absent)
IsNotIsk(item) == IF "type_id" \in DOMAIN item THEN item["type_id"] # TYPE_ID_ISK ELSE TRUE

\* the rule of the count-based scripts: more than one entry also counts
is_material_required_by_count(offer) ==
    LET required_items == Get(offer, "required_items", <<>>)
    IN  \/ \E k \in 1..Len(required_items) : IsNotIsk(required_items[k])
        \/ Len(required_items) > 1

is_material_required(offer) ==
    LET required_items == Get(offer, "required_items", <<>>)
    IN  \E k \in 1..Len(required_items) : IsNotIsk(required_items[k])

(***************************************************************************)
(* The offer filter loop of main / run_market_analysis                     *)
(***************************************************************************)
\* the loop body without its lp_cost test
Rejected_without_lp_test(offer) == is_material_required(offer)

\* the two `continue` tests of the loop body
Rejected(offer) == Get(offer, "lp_cost", 0) = 0 \/ is_material_required(offer)

\* a loop body that stores the lp cost only
Annotate_lp_only(offer) == Put(offer, "lp_cost_actual", Get(offer, "lp_cost", 0))

\* offer['lp_cost_actual'] = lp_cost; offer['isk_base_cost_actual'] = isk_base_cost
Annotate(offer) ==
    Put(Put(offer, "lp_cost_actual", Get(offer, "lp_cost", 0)),
        "isk_base_cost_actual", Get(offer, "isk_cost", 0))

\* the raw list after the loop: accepted offers were annotated in place
OffersAfterFilter(offers) ==
    [k \in 1..Len(offers) |-> IF Rejected(offers[k]) THEN offers[k] ELSE Annotate(offers[k])]

\* filtered_offers after the loop: the accepted offers, in input order
RECURSIVE FilterLoop(_)
FilterLoop(offers) ==
    IF offers = <<>> THEN <<>>
    ELSE IF Rejected(Head(offers)) THEN FilterLoop(Tail(offers))
         ELSE <<Annotate(Head(offers))>> \o FilterLoop(Tail(offers))

(***************************************************************************)
(* A pipeline run: state                                                   *)
(***************************************************************************)
VARIABLES
    variant,                  \* "script" (allmarkets+global.py) or "app" (app/app.py)
    pc,                       \* position of the run
    all_offers, error,        \* what get_lp_store_offers_esi returned
    filtered_offers,
    item_names,               \* dict type_id -> name
    market,                   \* index into MARKETS of the region being analysed
    offer_idx,                \* index into filtered_offers of the offer being analysed
    avg_price, lowest_price, current_sell_price, volume_10d,
    result,                   \* the row built for the last pair that had a price signal
    current_market_results, global_results,
    market_results,           \* dict market name -> rows
    regional_views,           \* dict market name -> rows shown for the market
    global_max_isk, global_liquidez_media, global_liquidez_alta,
    report,                   \* what the run reported: nothing yet, an error, or results
    raised,                   \* the exception that left the run, if any
    offer_requests, name_requests, stats_calls, history_requests, order_requests,
    call                      \* a function run on its own: arguments, locals, return value

vars == <<variant, pc, all_offers, error, filtered_offers, item_names, market,
          offer_idx, avg_price, lowest_price, current_sell_price, volume_10d,
          result, current_market_results, global_results, market_results,
          regional_views, global_max_isk, global_liquidez_media,
          global_liquidez_alta, report, raised, offer_requests, name_requests,
          stats_calls, history_requests, order_requests, call>>

\* the locals of get_market_stats and of the loop body
statsVars == <<avg_price, lowest_price, current_sell_price, volume_10d>>
resultVars == <<result, current_market_results, global_results, market_results>>
viewVars == <<regional_views, global_max_isk, global_liquidez_media, global_liquidez_alta>>
requestVars == <<offer_requests, name_requests, stats_calls, history_requests, order_requests>>

\* a result row not built yet
NoResult == [item_name |-> <<>>]

\* no function is called on its own
NoCall == [fn |-> "None"]

\* the failures requests reports as a RequestException
RequestFailures == {"ConnectionError", "Timeout", "HTTPError"}

\* the message get_lp_store_offers_esi builds from the exception
OfferErrorMessage(e) == "Error API al obtener ofertas LP: " \o e

(***************************************************************************)
(* Offers the offers endpoint answers in a pipeline run                    *)
(***************************************************************************)
\* lp 5000, isk 1,000,000, 100 units: ratio 100 at 15000, 120 at 16000, 80 at 14000
OfferA == [type_id |-> 1, lp_cost |-> 5000, isk_cost |-> 1000000, quantity |-> 100,
           required_items |-> <<>>]
\* one unit for 8 lp: ratio 1875 at 15000, 2000 at 16000, 1750 at 14000
OfferB == [type_id |-> 2, lp_cost |-> 8, isk_cost |-> 0,
           required_items |-> <<IskEntry>>]
\* isk 1,500,000: ratio 0 at 15000, 20 at 16000, -20 at 14000
OfferN == [type_id |-> 3, lp_cost |-> 5000, isk_cost |-> 1500000, quantity |-> 100]
\* needs a material
OfferM == [type_id |-> 4, lp_cost |-> 5000, isk_cost |-> 1000000, quantity |-> 1,
           required_items |-> <<IskEntry, MatEntry>>]
\* no lp_cost
OfferZ == [type_id |-> 5, isk_cost |-> 1000000, quantity |-> 1]

OfferPool == {OfferA, OfferB, OfferN, OfferM, OfferZ}

\* the state of program v at position p with the raw offer list offers and
\* the call c
InitWith(v, p, offers, c) ==
    /\ variant = v
    /\ pc = p
    /\ all_offers = offers
    /\ error = NoError
    /\ filtered_offers = <<>>
    /\ item_names = <<>>
    /\ market = 0
    /\ offer_idx = 0
    /\ avg_price = Zero
    /\ lowest_price = Zero
    /\ current_sell_price = Zero
    /\ volume_10d = 0
    /\ result = NoResult
    /\ current_market_results = <<>>
    /\ global_results = <<>>
    /\ market_results = <<>>
    /\ regional_views = <<>>
    /\ global_max_isk = <<>>
    /\ global_liquidez_media = <<>>
    /\ global_liquidez_alta = <<>>
    /\ report = "None"
    /\ raised = NoError
    /\ offer_requests = (IF p = "filter" THEN 1 ELSE 0)
    /\ name_requests = 0
    /\ stats_calls = 0
    /\ history_requests = 0
    /\ order_requests = 0
    /\ call = c

\* the state at position p of a run
InitAt(p, offers) == \E v \in {"script", "app"} : InitWith(v, p, offers, NoCall)

\* a run starts before the offers request
Init == InitAt("fetch", <<>>)

\* the filter loop on its own: the offers request has answered a raw list
InitFilter == \E offers \in SeqsUpTo(RawOfferPool, MaxRawOffers) : InitAt("filter", offers)

(***************************************************************************)
(* get_lp_store_offers_esi and the caller's `if error`                     *)
(***************************************************************************)
\* the function without its except clause: the failure leaves it
FetchOffersFail_raises ==
    /\ pc = "fetch"
    /\ \E e \in RequestFailures : raised' = e
    /\ offer_requests' = offer_requests + 1
    /\ pc' = "raised"
    /\ UNCHANGED <<variant, call, all_offers, error, filtered_offers, item_names, market,
                   offer_idx, statsVars, resultVars, viewVars, report, name_requests,
                   stats_calls, history_requests, order_requests>>

\* a caller without its `if error`: the run goes on with the empty list
FetchOffersFail_continues ==
    /\ pc = "fetch"
    /\ \E e \in RequestFailures :
          /\ all_offers' = <<>>
          /\ error' = OfferErrorMessage(e)
    /\ offer_requests' = offer_requests + 1
    /\ pc' = "filter"
    /\ UNCHANGED <<variant, call, filtered_offers, item_names, market, offer_idx, statsVars,
                   resultVars, viewVars, report, raised, name_requests, stats_calls,
                   history_requests, order_requests>>

\* the request fails: ([], message); the run reports the message and ends
FetchOffersFail ==
    /\ pc = "fetch"
    /\ \E e \in RequestFailures :
          /\ all_offers' = <<>>
          /\ error' = OfferErrorMessage(e)
    /\ offer_requests' = offer_requests + 1
    /\ report' = "fetch_error"
    /\ pc' = "done"
    /\ UNCHANGED <<variant, call, filtered_offers, item_names, market, offer_idx, statsVars,
                   resultVars, viewVars, raised, name_requests, stats_calls,
                   history_requests, order_requests>>

\* the request succeeds: (response.json(), None)
FetchOffersOk ==
    /\ pc = "fetch"
    /\ \E offers \in SeqsUpTo(OfferPool, MaxOffers) : all_offers' = offers
    /\ error' = NoError
    /\ offer_requests' = offer_requests + 1
    /\ pc' = "filter"
    /\ UNCHANGED <<variant, call, filtered_offers, item_names, market, offer_idx, statsVars,
                   resultVars, viewVars, report, raised, name_requests, stats_calls,
                   history_requests, order_requests>>

(***************************************************************************)
(* The filter loop and `if not filtered_offers`                            *)
(***************************************************************************)
FilterOffers ==
    /\ pc = "filter"
    /\ filtered_offers' = FilterLoop(all_offers)
    /\ all_offers' = OffersAfterFilter(all_offers)
    /\ IF filtered_offers' = <<>>
       THEN /\ report' = "no_offers"
            /\ pc' = "done"
       ELSE /\ report' = report
            /\ pc' = "names"
    /\ UNCHANGED <<variant, call, error, item_names, market, offer_idx, statsVars,
                   resultVars, viewVars, raised, requestVars>>

(***************************************************************************)
(* Name resolution: POST /universe/names inside try / except Exception     *)
(***************************************************************************)
\* the name the API gives a type, and the label f"ID: {type_id}"
ApiName(t) == <<"name", t>>
SyntheticLabel(t) == <<"ID", t>>

\* type_ids = [offer['type_id'] for offer in filtered_offers]
TypeIds(offers) == [k \in 1..Len(offers) |-> offers[k]["type_id"]]

\* a well-formed response: one {id, name} entry per requested id, in order
NameEntries(type_ids) ==
    [k \in 1..Len(type_ids) |-> [id |-> type_ids[k], name |-> ApiName(type_ids[k])]]

\* the same response with entry j lacking its 'name'
NameEntriesBrokenAt(type_ids, j) ==
    [k \in 1..Len(type_ids) |->
        IF k = j THEN [id |-> type_ids[k]] ELSE NameEntries(type_ids)[k]]

\* for item in name_response.json(): item_names[item['id']] = item['name']
\* the loop stops at the first entry that raises; what was stored stays
RECURSIVE NamesLoop(_, _)
NamesLoop(entries, names) ==
    IF entries = <<>> THEN names
    ELSE LET item == Head(entries)
         IN  IF "id" \in DOMAIN item /\ "name" \in DOMAIN item
             THEN NamesLoop(Tail(entries), Put(names, item["id"], item["name"]))
             ELSE names

\* item_names.get(type_id, f"ID: {type_id}")
NameOf(names, t) == Get(names, t, SyntheticLabel(t))

ResolveNames ==
    /\ pc = "names"
    /\ name_requests' = name_requests + 1
    /\ LET type_ids == TypeIds(filtered_offers)
       IN  \/ \* the request raises: item_names stays {}
              /\ \E e \in RequestFailures : TRUE
              /\ item_names' = <<>>
           \/ \* a response, well-formed or with one broken entry
              \E entries \in {NameEntries(type_ids)} \cup
                             {NameEntriesBrokenAt(type_ids, j) : j \in 1..Len(type_ids)} :
                  item_names' = NamesLoop(entries, <<>>)
    /\ pc' = "market"
    /\ UNCHANGED <<variant, call, all_offers, error, filtered_offers, market, offer_idx,
                   statsVars, resultVars, viewVars, report, raised, offer_requests,
                   stats_calls, history_requests, order_requests>>

(***************************************************************************)
(* for market_name, region_id in MARKETS.items()                           *)
(***************************************************************************)
\* the next region starts: current_market_results = []
BeginMarket ==
    /\ pc = "market"
    /\ market < NumMarkets
    /\ market' = market + 1
    /\ offer_idx' = 1
    /\ current_market_results' = <<>>
    /\ pc' = "history"
    /\ UNCHANGED <<variant, call, all_offers, error, filtered_offers, item_names, statsVars,
                   result, global_results, market_results, viewVars, report, raised,
                   requestVars>>

(***************************************************************************)
(* get_market_stats, part 1: the price history                             *)
(***************************************************************************)
\* a date string: parsable (and then so many days before today) or not
Date(age) == [valid |-> TRUE, age |-> age]
BadDate == [valid |-> FALSE]

\* a window that counts calendar days, whatever the time of day is
InWindow_by_calendar_day(age, days, late) == age <= days

\* date_obj >= datetime.now() - timedelta(days): date_obj is midnight of the
\* day `age` days ago; `late` is 0 when now is exactly midnight, else 1
InWindow(age, days, late) == age + late <= days

\* the loop over history_data; acc holds avg_prices, lowest_daily_prices,
\* volume_10d and the exception that ended the loop
RECURSIVE HistoryLoop(_, _, _)
HistoryLoop(data, late, acc) ==
    IF data = <<>> THEN acc
    ELSE LET day == Head(data)
             in30 == InWindow(day["date"]["age"], HISTORY_DAYS, late)
             in10 == InWindow(day["date"]["age"], VOLUME_DAYS, late)
         IN  IF "date" \notin DOMAIN day THEN [acc EXCEPT !.exc = "KeyError"]
             ELSE IF ~day["date"]["valid"] THEN [acc EXCEPT !.exc = "ValueError"]
             ELSE IF in30 /\ ("average" \notin DOMAIN day \/ "lowest" \notin DOMAIN day)
                  THEN [acc EXCEPT !.exc = "KeyError"]
             ELSE IF in10 /\ "volume" \notin DOMAIN day THEN [acc EXCEPT !.exc = "KeyError"]
             ELSE HistoryLoop(Tail(data), late,
                    [exc |-> NoError,
                     avg_prices |->
                        IF in30 THEN Append(acc.avg_prices, day["average"])
                        ELSE acc.avg_prices,
                     lowest_daily_prices |->
                        IF in30 THEN Append(acc.lowest_daily_prices, day["lowest"])
                        ELSE acc.lowest_daily_prices,
                     volume_10d |->
                        IF in10 THEN acc.volume_10d + day["volume"] ELSE acc.volume_10d])


RECURSIVE Sum(_)
Sum(xs) == IF xs = <<>> THEN 0 ELSE Head(xs) + Sum(Tail(xs))

RECURSIVE Min(_)
Min(xs) == IF Len(xs) = 1 THEN Head(xs)
           ELSE LET rest == Min(Tail(xs)) IN IF Head(xs) <= rest THEN Head(xs) ELSE rest

\* history responses of a pipeline run: one recent day each, the dearer day
\* with the smaller volume
H15 == <<[date |-> Date(1), average |-> 15000, lowest |-> 14500, volume |-> 20]>>
H16 == <<[date |-> Date(1), average |-> 16000, lowest |-> 15500, volume |-> 10]>>
HistoryPool == {H15, H16}

\* malformed history responses: a record lacking one key, or an unparsable date
FullDay == H15[1]
DayWithout(k) == [x \in (DOMAIN FullDay) \ {k} |-> FullDay[x]]
MalformedHistoryPool ==
    { <<DayWithout(k)>> : k \in {"date", "average", "lowest", "volume"} }
    \cup { <<[FullDay EXCEPT !.date = BadDate]>> }

\* the request, raise_for_status or json() raises a RequestException: the
\* except clause passes, the initial values stay
HistoryLookupFails ==
    /\ pc = "history"
    /\ stats_calls' = stats_calls + 1
    /\ history_requests' = history_requests + 1
    /\ \E e \in RequestFailures : TRUE
    /\ avg_price' = Zero
    /\ lowest_price' = Inf
    /\ volume_10d' = 0
    /\ pc' = "orders"
    /\ UNCHANGED <<variant, call, all_offers, error, filtered_offers, item_names, market,
                   offer_idx, current_sell_price, resultVars, viewVars, report, raised,
                   offer_requests, name_requests, order_requests>>

\* the statistics of a history response whose loop ended normally
AvgOf(acc) ==
    IF acc.avg_prices # <<>> THEN Rat(Sum(acc.avg_prices), Len(acc.avg_prices)) ELSE Zero
LowestOf(acc) ==
    IF acc.avg_prices # <<>> THEN Int2Rat(Min(acc.lowest_daily_prices)) ELSE Zero

\* the request succeeds; an exception other than RequestException leaves
\* get_market_stats and the run
HistoryLookupAnswers ==
    /\ pc = "history"
    /\ stats_calls' = stats_calls + 1
    /\ history_requests' = history_requests + 1
    /\ \E data \in HistoryPool \cup MalformedHistoryPool, late \in {0, 1} :
          LET acc == HistoryLoop(data, late,
                        [exc |-> NoError, avg_prices |-> <<>>,
                         lowest_daily_prices |-> <<>>, volume_10d |-> 0])
          IN  IF acc.exc # NoError
              THEN /\ raised' = acc.exc
                   /\ pc' = "raised"
                   /\ UNCHANGED <<avg_price, lowest_price, volume_10d>>
              ELSE /\ avg_price' = AvgOf(acc)
                   /\ lowest_price' = LowestOf(acc)
                   /\ volume_10d' = acc.volume_10d
                   /\ raised' = raised
                   /\ pc' = "orders"
    /\ UNCHANGED <<variant, call, all_offers, error, filtered_offers, item_names, market,
                   offer_idx, current_sell_price, resultVars, viewVars, report,
                   offer_requests, name_requests, order_requests>>

(***************************************************************************)
(* get_market_stats, part 2: the order book                                *)
(***************************************************************************)
SellOrder(p) == [price |-> p, is_buy_order |-> FALSE]
OrdersPool == { <<>>, <<SellOrder(14000)>> }

\* the filter of the list comprehension; app.py also tests is_buy_order
OrderCounts(v, order) ==
    /\ Get(order, "price", 0) > 0
    /\ v = "app" => ("is_buy_order" \in DOMAIN order /\ order["is_buy_order"] = FALSE)

RECURSIVE SellPrices(_, _)
SellPrices(v, data) ==
    IF data = <<>> THEN <<>>
    ELSE IF OrderCounts(v, Head(data))
         THEN <<Head(data)["price"]>> \o SellPrices(v, Tail(data))
         ELSE SellPrices(v, Tail(data))

\* min(sell_prices) if sell_prices else 0
CurrentSellPrice(v, data) ==
    LET sell_prices == SellPrices(v, data)
    IN  IF sell_prices # <<>> THEN Int2Rat(Min(sell_prices)) ELSE Zero

\* order books handed to the lookup on its own: sell orders, one priced 0,
\* one without a price, and a buy order below the sell orders
StatsOrderPool ==
    { SellOrder(14000), SellOrder(12000), SellOrder(0), [is_buy_order |-> FALSE],
      [price |-> 9000, is_buy_order |-> TRUE] }

\* data = current_response.json(): an answer of the pipeline's pool, or the
\* book the lookup is run on
OrdersAnswers == IF "data" \in DOMAIN call THEN {call.data} ELSE OrdersPool

OrdersLookupFails ==
    /\ pc = "orders"
    /\ order_requests' = order_requests + 1
    /\ \E e \in RequestFailures : TRUE
    /\ current_sell_price' = Zero
    /\ pc' = "compute"
    /\ UNCHANGED <<variant, call, all_offers, error, filtered_offers, item_names, market,
                   offer_idx, avg_price, lowest_price, volume_10d, resultVars, viewVars,
                   report, raised, offer_requests, name_requests, stats_calls,
                   history_requests>>

OrdersLookupAnswers ==
    /\ pc = "orders"
    /\ order_requests' = order_requests + 1
    /\ \E data \in OrdersAnswers : current_sell_price' = CurrentSellPrice(variant, data)
    /\ pc' = "compute"
    /\ UNCHANGED <<variant, call, all_offers, error, filtered_offers, item_names, market,
                   offer_idx, avg_price, lowest_price, volume_10d, resultVars, viewVars,
                   report, raised, offer_requests, name_requests, stats_calls,
                   history_requests>>

(***************************************************************************)
(* The profitability computation of the loop body                          *)
(***************************************************************************)
\* the computation without its guard
HasPriceSignal_always(avg, cur) == TRUE

\* the guard of the computation
HasPriceSignal(avg, cur) == RPos(avg) \/ RPos(cur)

\* the fallback chain reversed: the current price first
PriceToUse_current_first(avg, cur) == IF RPos(cur) THEN cur ELSE avg

\* price_to_use_avg
PriceToUse(avg, cur) == IF RPos(avg) THEN avg ELSE cur

\* x / lp_cost if lp_cost > 0 else 0
PerLp(x, lp_cost) == IF lp_cost > 0 THEN RDivInt(x, lp_cost) ELSE Zero

\* the dict `result`
BuildResult(v, market_name, offer, names, avg, low, cur, vol) ==
    LET type_id == offer["type_id"]
        lp_cost == offer["lp_cost_actual"]
        isk_base_cost == offer["isk_base_cost_actual"]
        quantity == Get(offer, "quantity", 1)
        isk_profit_avg ==
            RSub(RMulInt(PriceToUse(avg, cur), quantity), Int2Rat(isk_base_cost))
        isk_profit_current == RSub(RMulInt(cur, quantity), Int2Rat(isk_base_cost))
        row == [market |-> market_name,
                item_name |-> NameOf(names, type_id),
                isk_per_lp |-> PerLp(isk_profit_avg, lp_cost),
                isk_per_lp_current |-> PerLp(isk_profit_current, lp_cost),
                isk_profit |-> isk_profit_avg,
                lp_cost |-> lp_cost,
                isk_base_cost |-> isk_base_cost,
                sell_price_avg |-> avg,
                sell_price_low |-> low,
                sell_price_current |-> cur,
                volume_10d |-> vol,
                quantity |-> quantity]
    IN  IF v = "app" THEN Put(row, "type_id", type_id) ELSE row

\* the loop body without its positive-ratio test
Retained_always(row) == TRUE

\* if isk_per_lp_avg > 0: the row joins both lists
Retained(row) == RPos(row["isk_per_lp"])

\* the rest of the loop body after get_market_stats returned, and the step
\* to the next offer
Compute ==
    /\ pc = "compute"
    /\ LET offer == filtered_offers[offer_idx]
           row == BuildResult(variant, MARKETS[market], offer, item_names, avg_price,
                              lowest_price, current_sell_price, volume_10d)
       IN  IF HasPriceSignal(avg_price, current_sell_price)
           THEN /\ result' = row
                /\ IF Retained(row)
                   THEN /\ current_market_results' = Append(current_market_results, row)
                        /\ global_results' = Append(global_results, row)
                   ELSE UNCHANGED <<current_market_results, global_results>>
           ELSE UNCHANGED <<result, current_market_results, global_results>>
    /\ IF offer_idx < Len(filtered_offers)
       THEN /\ offer_idx' = offer_idx + 1
            /\ pc' = "history"
       ELSE /\ offer_idx' = offer_idx
            /\ pc' = "sort"
    /\ UNCHANGED <<variant, call, all_offers, error, filtered_offers, item_names, market,
                   statsVars, market_results, viewVars, report, raised, requestVars>>


(***************************************************************************)
(* Sorting and truncation                                                  *)
(***************************************************************************)
\* x[sort_key] as a rational
KeyOf(r, sort_key) ==
    IF sort_key = "isk_per_lp" THEN r["isk_per_lp"]
    ELSE IF sort_key = "profitability_score" THEN r["profitability_score"]
    ELSE IF sort_key = "ISK_LP" THEN r["ISK_LP"]
    ELSE Int2Rat(r["volume_10d"])

\* where a stable descending sort puts x among the sorted rows: behind every
\* row whose key is not smaller
RECURSIVE InsertDesc(_, _, _)
InsertDesc(sorted, x, sort_key) ==
    IF sorted = <<>> THEN <<x>>
    ELSE IF RLess(KeyOf(Head(sorted), sort_key), KeyOf(x, sort_key))
         THEN <<x>> \o sorted
         ELSE <<Head(sorted)>> \o InsertDesc(Tail(sorted), x, sort_key)

\* list.sort(key=lambda x: x[sort_key], reverse=True): stable
RECURSIVE SortDescFrom(_, _, _)
SortDescFrom(rows, sorted, sort_key) ==
    IF rows = <<>> THEN sorted
    ELSE SortDescFrom(Tail(rows), InsertDesc(sorted, Head(rows), sort_key), sort_key)

\* a view that keeps the order of the dict
SortDesc_unsorted(rows, sort_key) == rows

\* a sort whose order of equal keys differs from one run to the next
SortDesc_by_run(rows, sort_key) ==
    IF call = [fn |-> "None"] THEN SortDescFrom(rows, <<>>, sort_key)
    ELSE SortDescFrom([k \in 1..Len(rows) |-> rows[Len(rows) + 1 - k]], <<>>, sort_key)

SortDesc(rows, sort_key) == SortDescFrom(rows, <<>>, sort_key)

\* a slice that cuts nothing
Take_untruncated(rows, n) == rows

\* rows[:n]
Take(rows, n) == IF Len(rows) <= n THEN rows ELSE SubSeq(rows, 1, n)

\* current_market_results.sort(...); market_results[market_name] = ...
\* (app.py stores the first TOP_N_REGIONAL rows, the script stores them all)
SortMarket ==
    /\ pc = "sort"
    /\ LET sorted == SortDesc(current_market_results, "isk_per_lp")
       IN  /\ current_market_results' = sorted
           /\ market_results' =
                 Put(market_results, MARKETS[market],
                     IF variant = "app" THEN Take(sorted, TOP_N_REGIONAL) ELSE sorted)
    /\ pc' = IF market < NumMarkets THEN "market" ELSE "views"
    /\ UNCHANGED <<variant, call, all_offers, error, filtered_offers, item_names, market,
                   offer_idx, statsVars, result, global_results, viewVars, report,
                   raised, requestVars>>

(***************************************************************************)
(* Global views: filter, deduplicate by item_name, sort, truncate          *)
(***************************************************************************)
\* the view filter without its volume test
Eligible_any_volume(r, min_lp_filter) == RGeq(r["isk_per_lp"], Int2Rat(min_lp_filter))

\* [r for r in results if r['volume_10d'] > 0 and r['isk_per_lp'] >= min_lp_filter]
Eligible(r, min_lp_filter) ==
    r["volume_10d"] > 0 /\ RGeq(r["isk_per_lp"], Int2Rat(min_lp_filter))

RECURSIVE FilterEligible(_, _)
FilterEligible(results, min_lp_filter) ==
    IF results = <<>> THEN <<>>
    ELSE IF Eligible(Head(results), min_lp_filter)
         THEN <<Head(results)>> \o FilterEligible(Tail(results), min_lp_filter)
         ELSE FilterEligible(Tail(results), min_lp_filter)

\* the dict `unique` is kept as the sequence of its values in insertion
\* order; the position of the entry of a key, 0 when the key is absent
RECURSIVE PositionOf(_, _)
PositionOf(unique, name) ==
    IF unique = <<>> THEN 0
    ELSE IF unique[Len(unique)]["item_name"] = name THEN Len(unique)
         ELSE PositionOf(SubSeq(unique, 1, Len(unique) - 1), name)

\* unique[r['item_name']] = r
Store(unique, r) ==
    LET k == PositionOf(unique, r["item_name"])
    IN  IF k = 0 THEN Append(unique, r) ELSE [unique EXCEPT ![k] = r]

\* the test of print_global_results_detailed's two loops
ReplacesScript(unique, r, sort_key) ==
    LET k == PositionOf(unique, r["item_name"])
    IN  \/ k = 0
        \/ IF sort_key = "isk_per_lp"
           THEN RGreater(r["isk_per_lp"], unique[k]["isk_per_lp"])
           ELSE r["volume_10d"] > unique[k]["volume_10d"]

\* the if / elif / elif of process_global
ReplacesApp(unique, r, sort_key) ==
    LET k == PositionOf(unique, r["item_name"])
    IN  IF k = 0 THEN TRUE
        ELSE IF sort_key = "isk_per_lp" /\ RGreater(r["isk_per_lp"], unique[k]["isk_per_lp"])
             THEN TRUE
        ELSE sort_key = "volume_10d" /\ r["volume_10d"] > unique[k]["volume_10d"]

\* a scan that keeps the first row of every item
Replaces_never(v, unique, r, sort_key) == PositionOf(unique, r["item_name"]) = 0

\* a scan that also replaces on an equal key
Replaces_on_tie(v, unique, r, sort_key) ==
    LET k == PositionOf(unique, r["item_name"])
    IN  \/ k = 0
        \/ RGeq(KeyOf(r, sort_key), KeyOf(unique[k], sort_key))

Replaces(v, unique, r, sort_key) ==
    IF v = "app" THEN ReplacesApp(unique, r, sort_key)
    ELSE ReplacesScript(unique, r, sort_key)

RECURSIVE DedupLoop(_, _, _, _)
DedupLoop(v, filtered, unique, sort_key) ==
    IF filtered = <<>> THEN unique
    ELSE DedupLoop(v, Tail(filtered),
                   IF Replaces(v, unique, Head(filtered), sort_key)
                   THEN Store(unique, Head(filtered)) ELSE unique,
                   sort_key)

\* the script runs a loop only for the two sort keys it knows
Dedup(v, filtered, sort_key) ==
    IF v = "script" /\ sort_key \notin {"isk_per_lp", "volume_10d"} THEN <<>>
    ELSE DedupLoop(v, filtered, <<>>, sort_key)

\* process_global(results, sort_key, top_n, min_lp_filter), and the rows
\* print_global_results_detailed prints
process_global(v, results, sort_key, top_n, min_lp_filter) ==
    Take(SortDesc(Dedup(v, FilterEligible(results, min_lp_filter), sort_key), sort_key),
         top_n)

\* the rows print_results prints for one market
print_results(results, top_n) ==
    LET shown == Take(results, top_n)
    IN  SelectSeq(shown, LAMBDA r : RPos(r["isk_per_lp"]))

\* the tail of the run: the script prints its seven tables, app.py builds
\* the three global lists and returns
BuildViews ==
    /\ pc = "views"
    /\ regional_views' =
          IF variant = "app" THEN market_results
          ELSE [n \in DOMAIN market_results |->
                    print_results(market_results[n], TOP_N_REGIONAL)]
    /\ global_max_isk' =
          process_global(variant, global_results, "isk_per_lp", TOP_N_GLOBAL, 0)
    /\ global_liquidez_media' =
          process_global(variant, global_results, "volume_10d", TOP_N_VOLUME_FILTER,
                         MIN_ISK_PER_LP_FILTER_LOW)
    /\ global_liquidez_alta' =
          process_global(variant, global_results, "volume_10d", TOP_N_VOLUME_FILTER,
                         MIN_ISK_PER_LP_FILTER_HIGH)
    /\ report' = "results"
    /\ pc' = "done"
    /\ UNCHANGED <<variant, call, all_offers, error, filtered_offers, item_names, market,
                   offer_idx, statsVars, resultVars, raised, requestVars>>

(***************************************************************************)
(* process_global / print_global_results_detailed called on its own        *)
(***************************************************************************)
\* position of a market in the iteration order
MarketIndex(name) == CHOOSE k \in 1..Len(MARKETS) : MARKETS[k] = name

\* one unit for 4 lp: ratio 3750 at 15000
OfferH == [type_id |-> 6, lp_cost |-> 4, isk_cost |-> 0]

\* the row of an offer in a region whose average price is price
ViewRow(v, market_name, offer, price, vol) ==
    BuildResult(v, market_name, Annotate(offer), <<>>, Int2Rat(price), Int2Rat(price),
                Zero, vol)

\* retained rows of four items: equal and different ratios and volumes for
\* one item, a row without traded volume, ratios below and above the two
\* thresholds
ViewRowPool(v) ==
    { ViewRow(v, "Jita", OfferA, 15000, 10), ViewRow(v, "Dodixie", OfferA, 15000, 10),
      ViewRow(v, "Dodixie", OfferA, 16000, 20), ViewRow(v, "Jita", OfferA, 16000, 0),
      ViewRow(v, "Jita", OfferB, 15000, 20), ViewRow(v, "Dodixie", OfferB, 16000, 10),
      ViewRow(v, "Jita", OfferN, 16000, 20), ViewRow(v, "Dodixie", OfferN, 16000, 10),
      ViewRow(v, "Jita", OfferH, 15000, 10) }

\* global_results holds the rows region by region
InRegionOrder(rows) ==
    \A i, j \in 1..Len(rows) :
        i < j => MarketIndex(rows[i]["market"]) <= MarketIndex(rows[j]["market"])

SortKeys == {"isk_per_lp", "volume_10d"}
TopNPool == {1, 2, TOP_N_GLOBAL}
MinLpFilters == {0, MIN_ISK_PER_LP_FILTER_LOW, MIN_ISK_PER_LP_FILTER_HIGH}

\* the loops are over: global_results is complete, a view is about to be built
InitViews ==
    \E v \in {"script", "app"} :
      \E rows \in SeqsUpTo(ViewRowPool(v), MaxRows) :
        \E sort_key \in SortKeys, top_n \in TopNPool, min_lp_filter \in MinLpFilters :
          /\ InRegionOrder(rows)
          /\ InitWith(v, "call", <<>>,
                      [fn |-> "process_global", results |-> rows, sort_key |-> sort_key,
                       top_n |-> top_n, min_lp_filter |-> min_lp_filter])

ProcessGlobalCall ==
    /\ pc = "call"
    /\ call.fn = "process_global"
    /\ call' = [x \in (DOMAIN call) \cup {"out"} |->
                   IF x = "out"
                   THEN process_global(variant, call.results, call.sort_key, call.top_n,
                                       call.min_lp_filter)
                   ELSE call[x]]
    /\ pc' = "returned"
    /\ UNCHANGED <<variant, all_offers, error, filtered_offers, item_names, market,
                   offer_idx, statsVars, resultVars, viewVars, report, raised,
                   requestVars>>

(***************************************************************************)
(* The last region of a run with many offers: sort, store, show            *)
(***************************************************************************)
\* offers that differ in their type only: ratio 100 at price 15000, two more
\* for every 100 the price is higher
RegionOffer(i) ==
    [type_id |-> 10 + i, lp_cost |-> 5000, isk_cost |-> 1000000, quantity |-> 100]

ManyOffers == [i \in 1..MaxRegionOffers |-> Annotate(RegionOffer(i))]

\* how the snapshots of the offers differ: the average price of offer i
\* cycles upwards (a = 1), downwards (a = 3) or is constant (a = 0); the
\* volume cycles with period b, and is 0 throughout when b = 1
SnapshotShapes == [a : {0, 1, 3}, r : 0..3, b : 1..3, s : {0, 1}]
ShapePrice(sh, i) == 15000 + 100 * ((i * sh.a + sh.r) % 4)
ShapeVolume(sh, i) == 10 * ((i + sh.s) % sh.b)

\* the rows a region collects when its first n offers have a history and the
\* lookups of the others fail
RegionRows(v, market_name, n, sh) ==
    [i \in 1..n |->
        ViewRow(v, market_name, RegionOffer(i), ShapePrice(sh, i), ShapeVolume(sh, i))]

\* global_results after the first k regions
RECURSIVE RowsUpTo(_, _, _, _)
RowsUpTo(v, k, n, sh) ==
    IF k = 0 THEN <<>>
    ELSE RowsUpTo(v, k - 1, n, sh) \o RegionRows(v, MARKETS[k], n, sh)

\* what the run stored for a region it has finished
StoredRows(v, rows) ==
    LET sorted == SortDesc(rows, "isk_per_lp")
    IN  IF v = "app" THEN Take(sorted, TOP_N_REGIONAL) ELSE sorted

\* the offers loop of the last region is over
InitRegion ==
    \E v \in {"script", "app"}, n \in 0..MaxRegionOffers, sh \in SnapshotShapes :
        LET rows == RegionRows(v, MARKETS[NumMarkets], n, sh)
            last == MaxRegionOffers
        IN  /\ variant = v
            /\ call = NoCall
            /\ pc = "sort"
            /\ all_offers = ManyOffers
            /\ error = NoError
            /\ filtered_offers = ManyOffers
            /\ item_names = <<>>
            /\ market = NumMarkets
            /\ offer_idx = last
            /\ avg_price = (IF n = last THEN Int2Rat(ShapePrice(sh, last)) ELSE Zero)
            /\ lowest_price = (IF n = last THEN Int2Rat(ShapePrice(sh, last)) ELSE Inf)
            /\ current_sell_price = Zero
            /\ volume_10d = (IF n = last THEN ShapeVolume(sh, last) ELSE 0)
            /\ result = (IF n = 0 THEN NoResult ELSE rows[n])
            /\ current_market_results = rows
            /\ global_results = RowsUpTo(v, NumMarkets, n, sh)
            /\ market_results =
                  [name \in { MARKETS[k] : k \in 1..(NumMarkets - 1) } |->
                      StoredRows(v, RegionRows(v, name, n, sh))]
            /\ regional_views = <<>>
            /\ global_max_isk = <<>>
            /\ global_liquidez_media = <<>>
            /\ global_liquidez_alta = <<>>
            /\ report = "None"
            /\ raised = NoError
            /\ offer_requests = 1
            /\ name_requests = 1
            /\ stats_calls = NumMarkets * last
            /\ history_requests = NumMarkets * last
            /\ order_requests = NumMarkets * last

\* the program is run once more on the same frozen input: the views of the
\* first run are kept aside and the second run comes to the same point
RunAgain ==
    /\ pc = "done"
    /\ report = "results"
    /\ call = NoCall
    /\ call' = [fn |-> "run_market_analysis",
                market_results |-> market_results,
                regional_views |-> regional_views,
                global_max_isk |-> global_max_isk,
                global_liquidez_media |-> global_liquidez_media,
                global_liquidez_alta |-> global_liquidez_alta]
    /\ current_market_results' =
          SelectSeq(global_results, LAMBDA r : r["market"] = MARKETS[market])
    /\ market_results' =
          [name \in (DOMAIN market_results) \ {MARKETS[market]} |-> market_results[name]]
    /\ regional_views' = <<>>
    /\ global_max_isk' = <<>>
    /\ global_liquidez_media' = <<>>
    /\ global_liquidez_alta' = <<>>
    /\ report' = "None"
    /\ pc' = "sort"
    /\ UNCHANGED <<variant, all_offers, error, filtered_offers, item_names, market,
                   offer_idx, statsVars, result, global_results, raised, requestVars>>

(***************************************************************************)
(* app.py: get_lp_item_list and run_pure_trading_analysis                  *)
(***************************************************************************)
NoItemsMessage == "No se encontraron ofertas de items LP/ISK."

\* the filter loop of get_lp_item_list: no annotation
ItemListFilter(offers) == SelectSeq(offers, LAMBDA o : ~Rejected(o))

\* the list under "item_data"
ItemData(offers, names) ==
    [k \in 1..Len(offers) |->
        [type_id |-> offers[k]["type_id"],
         item_name |-> NameOf(names, offers[k]["type_id"]),
         quantity |-> Get(offers[k], "quantity", 1)]]

\* the pair run_pure_trading_analysis unpacks
ItemListReturn(first, second) ==
    [fn |-> "run_pure_trading_analysis", item_data_result |-> first, error |-> second]

\* get_lp_item_list when the offers request fails:
\* `if error: return {"error": error}, None`
ItemListFetchFails ==
    /\ pc = "trading"
    /\ \E e \in RequestFailures :
          /\ all_offers' = <<>>
          /\ error' = OfferErrorMessage(e)
    /\ offer_requests' = offer_requests + 1
    /\ call' = ItemListReturn([error |-> error'], NoError)
    /\ pc' = "unpack"
    /\ UNCHANGED <<variant, filtered_offers, item_names, market, offer_idx, statsVars,
                   resultVars, viewVars, report, raised, name_requests, stats_calls,
                   history_requests, order_requests>>

\* get_lp_item_list when the offers request succeeds: filter, the early
\* return on an empty list, name resolution, the item data
ItemListFetchOk ==
    /\ pc = "trading"
    /\ \E offers \in SeqsUpTo(OfferPool, MaxOffers) : all_offers' = offers
    /\ error' = NoError
    /\ offer_requests' = offer_requests + 1
    /\ filtered_offers' = ItemListFilter(all_offers')
    /\ IF filtered_offers' = <<>>
       THEN /\ call' = ItemListReturn([error |-> NoItemsMessage], NoError)
            /\ UNCHANGED <<item_names, name_requests>>
       ELSE /\ name_requests' = name_requests + 1
            /\ LET type_ids == TypeIds(filtered_offers')
               IN  \/ /\ \E e \in RequestFailures : TRUE
                      /\ item_names' = <<>>
                   \/ \E entries \in {NameEntries(type_ids)} \cup
                              {NameEntriesBrokenAt(type_ids, j) : j \in 1..Len(type_ids)} :
                          item_names' = NamesLoop(entries, <<>>)
            /\ call' = ItemListReturn(
                          [item_data |-> ItemData(filtered_offers', item_names')], NoError)
    /\ pc' = "unpack"
    /\ UNCHANGED <<variant, market, offer_idx, statsVars, resultVars, viewVars, report,
                   raised, stats_calls, history_requests, order_requests>>

\* item_data_result, error = get_lp_item_list(); if error: return ...;
\* item_data_list = item_data_result["item_data"]; market_results = {...}
TradingUnpack ==
    /\ pc = "unpack"
    /\ IF call.error # NoError
       THEN /\ report' = call.error
            /\ pc' = "done"
            /\ UNCHANGED <<raised, market, offer_idx, market_results>>
       ELSE IF "item_data" \notin DOMAIN call.item_data_result
       THEN /\ raised' = "KeyError"
            /\ pc' = "raised"
            /\ UNCHANGED <<report, market, offer_idx, market_results>>
       ELSE /\ market_results' = [n \in { MARKETS[k] : k \in 1..Len(MARKETS) } |-> <<>>]
            /\ market' = 1
            /\ offer_idx' = 1
            /\ pc' = "pair"
            /\ UNCHANGED <<report, raised>>
    /\ UNCHANGED <<variant, call, all_offers, error, filtered_offers, item_names,
                   statsVars, result, current_market_results, global_results, viewVars,
                   requestVars>>

\* history responses: nothing, one recent day, a recent and an old day
TradingHistoryPool ==
    { <<>>,
      <<[date |-> Date(1), average |-> 100, lowest |-> 100, volume |-> 100]>>,
      <<[date |-> Date(1), average |-> 100, lowest |-> 100, volume |-> 400],
        [date |-> Date(12), average |-> 100, lowest |-> 100, volume |-> 50]>> }

\* volume_10d of get_market_bid_ask_volume
RECURSIVE TradingVolume(_, _)
TradingVolume(data, late) ==
    IF data = <<>> THEN 0
    ELSE (IF InWindow(Head(data)["date"]["age"], VOLUME_DAYS, late)
          THEN Head(data)["volume"] ELSE 0) + TradingVolume(Tail(data), late)

BookOrder(p, remain, buy) == [price |-> p, volume_remain |-> remain, is_buy_order |-> buy]

\* order books: empty, a spread of 10 %, of 5 % next to a better sell order
\* with nothing left, of 1 %
TradingOrdersPool ==
    { <<>>,
      <<BookOrder(100, 5, TRUE), BookOrder(110, 5, FALSE), BookOrder(90, 5, TRUE)>>,
      <<BookOrder(100, 5, TRUE), BookOrder(105, 5, FALSE), BookOrder(101, 0, FALSE)>>,
      <<BookOrder(100, 5, TRUE), BookOrder(101, 5, FALSE)>> }

\* the prices of the orders that count, buy or sell
BookPrices(data, buy) ==
    LET counted == SelectSeq(data, LAMBDA o : /\ Get(o, "price", 0) > 0
                                              /\ Get(o, "volume_remain", 0) > 0
                                              /\ Get(o, "is_buy_order", FALSE) = buy)
    IN  [k \in 1..Len(counted) |-> counted[k]["price"]]

RECURSIVE Max(_)
Max(xs) == IF Len(xs) = 1 THEN Head(xs)
           ELSE LET rest == Max(Tail(xs)) IN IF Head(xs) >= rest THEN Head(xs) ELSE rest

MinSellPrice(data) == IF BookPrices(data, FALSE) # <<>> THEN Min(BookPrices(data, FALSE)) ELSE 0
MaxBuyPrice(data) == IF BookPrices(data, TRUE) # <<>> THEN Max(BookPrices(data, TRUE)) ELSE 0

\* math.sqrt on the volumes of the pool, which are squares
Sqrt(n) == CHOOSE k \in 0..n : k * k = n

\* the dict `result` of run_pure_trading_analysis
TradingRow(market_name, item, max_buy_price, min_sell_price, vol) ==
    LET spread == min_sell_price - max_buy_price
        spread_percent == Rat(spread * 100, max_buy_price)
    IN  [market |-> market_name,
         item_name |-> item["item_name"],
         type_id |-> item["type_id"],
         spread_isk |-> spread * item["quantity"],
         spread_percent |-> spread_percent,
         max_buy_price |-> max_buy_price,
         min_sell_price |-> min_sell_price,
         volume_10d |-> vol,
         profitability_score |-> RMulInt(spread_percent, Sqrt(vol)),
         quantity |-> item["quantity"]]

\* one pass of the loop body: get_market_bid_ask_volume, the row, and after
\* the last item of a region the sort and the cut
TradingPair ==
    /\ pc = "pair"
    /\ stats_calls' = stats_calls + 1
    /\ history_requests' = history_requests + 1
    /\ order_requests' = order_requests + 1
    /\ \E vol \in {0} \cup { TradingVolume(d, late) : d \in TradingHistoryPool, late \in {0, 1} },
          book \in {<<>>} \cup TradingOrdersPool :
          LET item == call.item_data_result["item_data"][offer_idx]
              name == MARKETS[market]
              max_buy_price == MaxBuyPrice(book)
              min_sell_price == MinSellPrice(book)
              row == TradingRow(name, item, max_buy_price, min_sell_price, vol)
              kept == /\ min_sell_price > 0 /\ max_buy_price > 0 /\ vol > 0
                      /\ RPos(row["profitability_score"])
                      /\ RGeq(row["spread_percent"], Int2Rat(2))
              rows == IF kept THEN Append(market_results[name], row)
                      ELSE market_results[name]
              last == offer_idx = Len(call.item_data_result["item_data"])
          IN  /\ volume_10d' = vol
              /\ market_results' =
                    [market_results EXCEPT ![name] =
                        IF last THEN Take(SortDesc(rows, "profitability_score"), TOP_N_TRADING)
                        ELSE rows]
              /\ IF ~last
                 THEN /\ offer_idx' = offer_idx + 1
                      /\ UNCHANGED <<market, report>>
                      /\ pc' = "pair"
                 ELSE IF market < NumMarkets
                 THEN /\ market' = market + 1
                      /\ offer_idx' = 1
                      /\ report' = report
                      /\ pc' = "pair"
                 ELSE /\ report' = "results"
                      /\ pc' = "done"
                      /\ UNCHANGED <<market, offer_idx>>
    /\ UNCHANGED <<variant, call, all_offers, error, filtered_offers, item_names,
                   avg_price, lowest_price, current_sell_price, result,
                   current_market_results, global_results, viewVars, raised,
                   offer_requests, name_requests>>

\* a request of /trading starts
InitTrading == InitWith("app", "trading", <<>>, NoCall)

(***************************************************************************)
(* The single-market scripts: isk_lp.py (first script) and                 *)
(* gallente_contracts_BPs.py.  The locals of main are kept in `call`.      *)
(***************************************************************************)
\* 1 - SALES_TAX_RATE
AfterTax == Rat(19, 20)
RMul(p, q) == Rat(p[1] * q[1], p[2] * q[2])
RAdd(p, q) == Rat(p[1] * q[2] + q[1] * p[2], p[2] * q[2])

\* f"Unknown Item ({type_id})"
UnknownItem(t) == <<"Unknown Item", t>>

\* offers of the store: plain, without lp cost, without isk_cost, dearer,
\* a blueprint copy, one that needs an item
SingleOfferPool ==
    { [type_id |-> 1, lp_cost |-> 1000, isk_cost |-> 500],
      [type_id |-> 2, lp_cost |-> 0, isk_cost |-> 0],
      [type_id |-> 3, lp_cost |-> 500],
      [type_id |-> 4, lp_cost |-> 1000, isk_cost |-> 1500],
      [type_id |-> 5, lp_cost |-> 1000, isk_cost |-> 500],
      [type_id |-> 6, lp_cost |-> 1000,
       required_items |-> <<[type_id |-> 34, quantity |-> 10]>>] }

\* the types whose name contains "Blueprint"
BlueprintTypeIds == {5}

\* the locals of main: results / all_results, debug_log, the rows printed
MainLocals(fn) == [fn |-> fn, results |-> <<>>, debug_log |-> <<>>, printed |-> <<>>]

InitSingle == \E v \in {"isk_lp", "BPs"} : InitWith(v, "single", <<>>, MainLocals(v))

\* the offers request raises: main's except clause prints the fatal error
SingleFetchFail ==
    /\ pc = "single"
    /\ \E e \in RequestFailures : error' = e
    /\ offer_requests' = offer_requests + 1
    /\ report' = "fatal"
    /\ pc' = "done"
    /\ UNCHANGED <<variant, call, all_offers, filtered_offers, item_names, market,
                   offer_idx, statsVars, resultVars, viewVars, raised, name_requests,
                   stats_calls, history_requests, order_requests>>

\* the offers request answers
SingleFetchOk ==
    /\ pc = "single"
    /\ \E offers \in SeqsUpTo(SingleOfferPool, MaxOffers) : all_offers' = offers
    /\ offer_requests' = offer_requests + 1
    /\ offer_idx' = 1
    /\ pc' = "offer"
    /\ UNCHANGED <<variant, call, error, filtered_offers, item_names, market, statsVars,
                   resultVars, viewVars, report, raised, name_requests, stats_calls,
                   history_requests, order_requests>>

\* what a lookup request can do: raise, or answer one of the bodies
Raises == [raises |-> TRUE]
Answers(body) == [raises |-> FALSE, body |-> body]
LookupOutcomes(bodies) == {Raises} \cup { Answers(b) : b \in bodies }

\* order books of isk_lp.py (sell orders only)
SingleOrdersPool == { <<>>, <<[price |-> 1000]>>, <<[price |-> 3000], [price |-> 2000]>> }

\* get_market_sell_price on an answered request
MarketSellPrice(orders) ==
    IF orders = <<>> THEN Zero
    ELSE Int2Rat(Min([k \in 1..Len(orders) |-> orders[k]["price"]]))

\* the state after the loop body of the offer
NextOffer ==
    /\ offer_idx' = offer_idx + 1
    /\ pc' = "offer"
    /\ UNCHANGED <<report, raised>>

\* the failures of a request made without raise_for_status
TransportFailures == RequestFailures \ {"HTTPError"}

\* a RequestException reaches the except clause of main
Fatal(failures) ==
    /\ \E e \in failures : raised' = e
    /\ report' = "fatal"
    /\ pc' = "done"
    /\ UNCHANGED offer_idx

\* isk_lp.py: the loop body of main for one offer, calculate_isk_per_lp and
\* the second get_market_sell_price for the row included
IskLpOffer ==
    /\ pc = "offer"
    /\ variant = "isk_lp"
    /\ offer_idx <= Len(all_offers)
    /\ LET offer == all_offers[offer_idx]
           lp_cost == Get(offer, "lp_cost", 0)
           isk_cost == Get(offer, "isk_cost", 0)
       IN  IF "isk_cost" \notin DOMAIN offer \/ lp_cost = 0
           THEN /\ NextOffer
                /\ UNCHANGED <<call, name_requests, order_requests>>
           ELSE /\ name_requests' = name_requests + 1
                /\ \E item_name \in {ApiName(offer["type_id"]), UnknownItem(offer["type_id"])},
                      first \in LookupOutcomes(SingleOrdersPool) :
                      IF first.raises
                      THEN /\ Fatal(RequestFailures)
                           /\ order_requests' = order_requests + 1
                           /\ UNCHANGED call
                      ELSE LET sell_price == MarketSellPrice(first.body)
                               isk_profit == RSub(RMul(sell_price, AfterTax), Int2Rat(isk_cost))
                               isk_per_lp == RDivInt(isk_profit, lp_cost)
                           IN  IF sell_price = Zero \/ ~RPos(isk_per_lp)
                               THEN /\ NextOffer
                                    /\ order_requests' = order_requests + 1
                                    /\ UNCHANGED call
                               ELSE /\ order_requests' = order_requests + 2
                                    /\ \E second \in LookupOutcomes(SingleOrdersPool) :
                                          IF second.raises
                                          THEN Fatal(RequestFailures) /\ UNCHANGED call
                                          ELSE /\ NextOffer
                                               /\ call' =
                                                    [call EXCEPT !.results =
                                                        Append(@,
                                                          [Item |-> item_name,
                                                           ISK_LP |-> isk_per_lp,
                                                           Profit |-> isk_profit,
                                                           LP_Cost |-> lp_cost,
                                                           ISK_Cost |-> isk_cost,
                                                           Sell_Price |->
                                                              MarketSellPrice(second.body)])]
    /\ UNCHANGED <<variant, all_offers, error, filtered_offers, item_names, market,
                   statsVars, resultVars, viewVars, offer_requests, stats_calls,
                   history_requests>>

\* the rest of main after the loop: nothing to show, or the ranked table
\* (isk_lp.py: the first 5 rows; gallente_contracts_BPs.py: the first 10 of
\* the rows with a positive ratio)
SinglePrint ==
    /\ pc = "offer"
    /\ offer_idx > Len(all_offers)
    /\ IF call.results = <<>>
       THEN /\ report' = "no_results"
            /\ UNCHANGED call
       ELSE /\ report' = "results"
            /\ LET sorted == SortDesc(call.results, "ISK_LP")
               IN  call' = [call EXCEPT
                              !.results = sorted,
                              !.printed =
                                 IF variant = "isk_lp" THEN Take(sorted, 5)
                                 ELSE Take(SelectSeq(sorted, LAMBDA r : RPos(r["ISK_LP"])), 10)]
    /\ pc' = "done"
    /\ UNCHANGED <<variant, all_offers, error, filtered_offers, item_names, market,
                   offer_idx, statsVars, resultVars, viewVars, raised, requestVars>>

(***************************************************************************)
(* gallente_contracts_BPs.py: the lookups and the three calculations       *)
(***************************************************************************)
\* a response body that is JSON, or is not
Json(data) == [json |-> TRUE, data |-> data]
NotJson == [json |-> FALSE]

\* history answers: not JSON, no day, one day
BpsHistoryBodies == { NotJson, Json(<<>>), Json(<<[average |-> 3000]>>) }

\* the records the loop `for day_data in data[::-1]` reaches before
\* `if count >= 30: break`: the last 30 of the answer, or all of them
LastRecords(data) ==
    IF Len(data) <= 30 THEN data ELSE SubSeq(data, Len(data) - 29, Len(data))

\* get_historical_average_price_single: the mean of 'average' over the last
\* 30 records of the answer, with its error text
HistoricalAverage(outcome) ==
    IF outcome.raises THEN [price |-> Zero, err |-> "API Request Failed"]
    ELSE IF ~outcome.body.json THEN [price |-> Zero, err |-> "API Error"]
    ELSE LET data == LastRecords(outcome.body.data)
             total_price == Sum([k \in 1..Len(data) |-> Get(data[k], "average", 0)])
         IN  [price |-> IF Len(data) > 0 THEN Rat(total_price, Len(data)) ELSE Zero,
              err |-> NoError]

\* get_best_historical_price
BestHistoricalPrice(jita, dodi) ==
    LET price_jita == HistoricalAverage(jita)
        price_dodi == HistoricalAverage(dodi)
        best_price == IF RGeq(price_jita.price, price_dodi.price)
                      THEN price_jita.price ELSE price_dodi.price
    IN  [price |-> best_price,
         source |-> IF best_price = price_jita.price /\ RPos(best_price) THEN "Jita"
                    ELSE IF best_price = price_dodi.price /\ RPos(best_price) THEN "Dodi"
                    ELSE "N/A",
         err |-> IF price_jita.err # NoError THEN price_jita.err ELSE price_dodi.err]

\* what get_current_market_buy_price returns: 0.0 on any failure, or a price
MaterialBuyPrices == { Zero, Int2Rat(10) }

\* the answers of /universe/types/{id}/ and of the type-materials service
Response(ok, body) == [ok |-> ok, body |-> body]
DetailBodies ==
    { Response(FALSE, NotJson), Response(TRUE, NotJson),
      Response(TRUE, Json([dogma_attributes |-> <<>>])),
      Response(TRUE, Json([dogma_attributes |-> <<[attribute_id |-> 633, value |-> 77]>>])) }
BomBodies ==
    { Response(FALSE, NotJson), Response(TRUE, NotJson),
      Response(TRUE, Json([name |-> "x"])),
      Response(TRUE, Json([materials |-> <<[type_id |-> 34, quantity |-> 10]>>])) }

\* (None, None)
NoMaterials == [raises |-> FALSE, materials |-> <<>>, product_type_id |-> 0]

\* next((attr['value'] for attr in dogma_attributes if attr['attribute_id'] == 633), None)
ProductTypeId(dogma_attributes) ==
    LET hits == SelectSeq(dogma_attributes, LAMBDA attr : attr["attribute_id"] = 633)
    IN  IF hits = <<>> THEN 0 ELSE hits[1]["value"]

\* get_blueprint_materials: neither requests.get is inside a try
BlueprintMaterials(details, bom) ==
    IF details.raises THEN Raises
    ELSE IF ~details.body.ok \/ ~details.body.body.json THEN NoMaterials
    ELSE LET product_type_id ==
                 ProductTypeId(Get(details.body.body.data, "dogma_attributes", <<>>))
         IN  IF product_type_id = 0 THEN NoMaterials
             ELSE IF bom.raises THEN Raises
             ELSE IF ~bom.body.ok \/ ~bom.body.body.json THEN NoMaterials
             ELSE [raises |-> FALSE,
                   materials |-> Get(bom.body.body.data, "materials", <<>>),
                   product_type_id |-> product_type_id]

\* a calculation returns (row, None) or (None, message)
Row(r) == [ok |-> TRUE, row |-> r]
Discarded(message, subject) == [ok |-> FALSE, message |-> <<message, subject>>]

\* sum of buy_price * quantity over the entries
MaterialCost(entries, buy_price) ==
    RMulInt(buy_price, Sum([k \in 1..Len(entries) |-> entries[k]["quantity"]]))

BpsRow(item, method, best, lp_cost, isk_profit, total_isk_cost) ==
    Row([Item |-> item, Method |-> <<method, best.source>>,
         ISK_LP |-> RDivInt(isk_profit, lp_cost), Profit |-> isk_profit,
         LP_Cost |-> lp_cost, Total_ISK_Cost |-> total_isk_cost,
         Avg_Sell_Price_30D |-> best.price])

\* calculate_lp_cost_and_profit after its lp_cost test
DirectSale(offer, item_name, buy_price, best) ==
    LET total_isk_cost ==
            RAdd(Int2Rat(Get(offer, "isk_cost", 0)),
                 MaterialCost(Get(offer, "required_items", <<>>), buy_price))
    IN  IF best.price = Zero THEN Discarded("Descartada: sin datos historicos", item_name)
        ELSE BpsRow(item_name, "Venta Directa", best, offer["lp_cost"],
                    RSub(RMul(best.price, AfterTax), total_isk_cost), total_isk_cost)

\* calculate_bpc_resale_profit after its lp_cost test
BpcResale(offer, item_name, best) ==
    LET isk_cost == Int2Rat(Get(offer, "isk_cost", 0))
    IN  IF best.price = Zero
        THEN IF best.err # NoError
             THEN Discarded("BPC Reventa Fallo: Error de API", item_name)
             ELSE Discarded("BPC Reventa Fallo: Sin datos historicos", item_name)
        ELSE BpsRow(item_name, "Reventa BPC", best, offer["lp_cost"],
                    RSub(best.price, isk_cost), isk_cost)

\* calculate_bpc_manufacturing_profit after get_blueprint_materials returned
BpcManufacturing(offer, bom, buy_price, product_name, best) ==
    IF bom.materials = <<>> \/ bom.product_type_id = 0
    THEN Discarded("BPC Fabricacion Fallo: BOM", offer["type_id"])
    ELSE LET total_isk_cost ==
                 RAdd(Int2Rat(Get(offer, "isk_cost", 0)),
                      MaterialCost(bom.materials, buy_price))
         IN  IF best.price = Zero
             THEN Discarded("BPC Fabricacion Fallo: sin datos historicos", product_name)
             ELSE BpsRow(product_name, "Fabricacion", best, offer["lp_cost"],
                         RSub(RMul(best.price, AfterTax), total_isk_cost), total_isk_cost)

\* all_results.append(result) or debug_log.append(error)
Record(locals, outcome) ==
    IF outcome.ok THEN [locals EXCEPT !.results = Append(@, outcome.row)]
    ELSE [locals EXCEPT !.debug_log = Append(@, outcome.message)]

\* gallente_contracts_BPs.py: the loop body of main for one offer
BpsOffer ==
    /\ pc = "offer"
    /\ variant = "BPs"
    /\ offer_idx <= Len(all_offers)
    /\ LET offer == all_offers[offer_idx]
           t == offer["type_id"]
           names == {ApiName(t), UnknownItem(t)}
           hist == LookupOutcomes(BpsHistoryBodies)
       IN  IF ~(/\ "lp_cost" \in DOMAIN offer
                /\ offer["lp_cost"] > 0
                /\ \/ "isk_cost" \in DOMAIN offer
                   \/ Get(offer, "required_items", <<>>) # <<>>)
           THEN NextOffer /\ UNCHANGED call
           ELSE \E item_name \in names :
                  IF item_name = ApiName(t) /\ t \in BlueprintTypeIds
                  THEN \E name_again \in names, jita \in hist, dodi \in hist,
                          details \in LookupOutcomes(DetailBodies) :
                          LET resold == Record(call, BpcResale(offer, name_again,
                                                   BestHistoricalPrice(jita, dodi)))
                          IN  \E bom_answer \in
                                    (IF details.raises THEN {Raises}
                                     ELSE LookupOutcomes(BomBodies)) :
                                LET bom == BlueprintMaterials(details, bom_answer)
                                IN  IF bom.raises
                                    THEN Fatal(TransportFailures) /\ call' = resold
                                    ELSE /\ NextOffer
                                         /\ \E buy_price \in MaterialBuyPrices,
                                               sell_jita \in hist, sell_dodi \in hist :
                                               call' = Record(resold,
                                                  BpcManufacturing(offer, bom, buy_price,
                                                     ApiName(bom.product_type_id),
                                                     BestHistoricalPrice(sell_jita, sell_dodi)))
                  ELSE /\ NextOffer
                       /\ \E name_again \in names, buy_price \in MaterialBuyPrices,
                             jita \in hist, dodi \in hist :
                             call' = Record(call, DirectSale(offer, name_again, buy_price,
                                                     BestHistoricalPrice(jita, dodi)))
    /\ UNCHANGED <<variant, all_offers, error, filtered_offers, item_names, market,
                   statsVars, resultVars, viewVars, requestVars>>

(***************************************************************************)
(* get_market_stats, part 1, on its own: every history of the pool         *)
(***************************************************************************)
\* daily records: inside the 10-day window, on its edge, on the edge of the
\* 30-day window, outside; two price pairs and two volumes
StatsDayPool ==
    { [date |-> Date(age), average |-> p[1], lowest |-> p[2], volume |-> vol] :
        age \in {5, VOLUME_DAYS, HISTORY_DAYS, HISTORY_DAYS + 1},
        p \in {<<100, 90>>, <<201, 50>>},
        vol \in {3, 7} }

\* the history request has answered; the loop over history_data is next
InitStats ==
    \E v \in {"script", "app"}, data \in SeqsUpTo(StatsDayPool, MaxDays), late \in {0, 1} :
        InitWith(v, "call", <<>>,
                 [fn |-> "get_market_stats", history_data |-> data, late |-> late])

\* lines 66 to 83: the loop and the three statistics
HistoryStatsCall ==
    /\ pc = "call"
    /\ call.fn = "get_market_stats"
    /\ LET acc == HistoryLoop(call.history_data, call.late,
                      [exc |-> NoError, avg_prices |-> <<>>,
                       lowest_daily_prices |-> <<>>, volume_10d |-> 0])
       IN  /\ avg_price' = AvgOf(acc)
           /\ lowest_price' = LowestOf(acc)
           /\ volume_10d' = acc.volume_10d
    /\ history_requests' = history_requests + 1
    /\ stats_calls' = stats_calls + 1
    /\ pc' = "returned"
    /\ UNCHANGED <<variant, call, all_offers, error, filtered_offers, item_names, market,
                   offer_idx, current_sell_price, resultVars, viewVars, report, raised,
                   offer_requests, name_requests, order_requests>>

\* the history part is over; the order request is next
InitOrders ==
    \E v \in {"script", "app"}, data \in SeqsUpTo(StatsOrderPool, MaxBook) :
        InitWith(v, "orders", <<>>, [fn |-> "get_market_stats", data |-> data])

(***************************************************************************)
(* BPs.py: the offers of one corporation from a tab-separated table.  A    *)
(* cell holding a numeral is <<n>>, any other text is <<>>; the corporation *)
(* cell is a string.                                                       *)
(***************************************************************************)
\* row[i] of a csv row (Python counts from 0)
Cell(row, i) == row[i + 1]

\* int(cell) raises ValueError on a cell that is no numeral
IsNumeral(cell) == cell # <<>>
IntOf(cell) == cell[1]

TsvRow(corp, type_id, quantity, lp, ak, isk) ==
    <<<<0>>, corp, <<type_id>>, <<quantity>>, lp, ak, isk>>

\* rows of the table: a plain offer, one without point cost, one with a
\* negative point cost, another corporation, one that needs an item, one
\* without ISK cost, one whose point cost is no numeral, a short row
TsvRowPool ==
    { TsvRow(FDU_CORP_ID, 1, 1, <<5000>>, <<0>>, <<1000>>),
      TsvRow(FDU_CORP_ID, 2, 1, <<0>>, <<0>>, <<1000>>),
      TsvRow(FDU_CORP_ID, 3, 1, <<-100>>, <<0>>, <<1000>>),
      TsvRow("1000182", 4, 1, <<5000>>, <<0>>, <<1000>>),
      TsvRow(FDU_CORP_ID, 5, 1, <<5000>>, <<34>>, <<1000>>),
      TsvRow(FDU_CORP_ID, 6, 1, <<5000>>, <<0>>, <<0>>),
      TsvRow(FDU_CORP_ID, 7, 1, <<>>, <<0>>, <<1000>>),
      <<<<0>>, FDU_CORP_ID, <<8>>, <<1>>, <<5000>>>> }

\* the body of the loop over the rows: the offers the row adds (none or one)
TsvOffer(row) ==
    IF Len(row) <= INDEX_ISKCOST THEN <<>>
    ELSE IF Cell(row, INDEX_CORPID) # FDU_CORP_ID THEN <<>>
    ELSE IF ~IsNumeral(Cell(row, INDEX_ISKCOST)) \/ ~IsNumeral(Cell(row, INDEX_AKCOST))
         THEN <<>>
    ELSE IF IntOf(Cell(row, INDEX_AKCOST)) # 0 THEN <<>>
    ELSE IF IntOf(Cell(row, INDEX_ISKCOST)) = 0 THEN <<>>
    ELSE IF \/ ~IsNumeral(Cell(row, INDEX_TYPEID))
            \/ ~IsNumeral(Cell(row, INDEX_LPCOST))
            \/ ~IsNumeral(Cell(row, INDEX_QUANTITY))
         THEN <<>>
    ELSE <<[type_id |-> IntOf(Cell(row, INDEX_TYPEID)),
            lp_cost |-> IntOf(Cell(row, INDEX_LPCOST)),
            isk_cost |-> IntOf(Cell(row, INDEX_ISKCOST)),
            quantity |-> IntOf(Cell(row, INDEX_QUANTITY))]>>

\* filtered_offers of get_lp_store_offers
RECURSIVE TsvOffers(_)
TsvOffers(rows) ==
    IF rows = <<>> THEN <<>> ELSE TsvOffer(Head(rows)) \o TsvOffers(Tail(rows))

\* what get_30day_average_price returns first: 0 (no history, or an error),
\* a price below the ISK cost, a price above it
AveragePricePool == {0, 3, 2000}

InitFdu == InitWith("BPs.py", "fdu", <<>>, MainLocals("BPs.py"))

\* the download raises: main prints the error and returns
FduFetchFail ==
    /\ pc = "fdu"
    /\ \E e \in RequestFailures : error' = e
    /\ offer_requests' = offer_requests + 1
    /\ report' = "error"
    /\ pc' = "done"
    /\ UNCHANGED <<variant, call, all_offers, filtered_offers, item_names, market,
                   offer_idx, statsVars, resultVars, viewVars, raised, name_requests,
                   stats_calls, history_requests, order_requests>>

\* the download answers: get_lp_store_offers and the two early returns of main
FduFetchOk ==
    /\ pc = "fdu"
    /\ offer_requests' = offer_requests + 1
    /\ \E rows \in SeqsUpTo(TsvRowPool, MaxTsvRows) :
          /\ all_offers' = rows
          /\ filtered_offers' = TsvOffers(rows)
          /\ IF TsvOffers(rows) = <<>>
             THEN report' = "no_offers" /\ pc' = "done" /\ UNCHANGED offer_idx
             ELSE offer_idx' = 1 /\ pc' = "fdu_offer" /\ UNCHANGED report
    /\ UNCHANGED <<variant, call, error, item_names, market, statsVars, resultVars,
                   viewVars, raised, name_requests, stats_calls, history_requests,
                   order_requests>>

\* the loop body of main for one offer
FduOffer ==
    /\ pc = "fdu_offer"
    /\ offer_idx <= Len(filtered_offers)
    /\ name_requests' = name_requests + 1
    /\ history_requests' = history_requests + 1
    /\ LET offer == filtered_offers[offer_idx]
           lp_cost == offer["lp_cost"]
       IN  \E item_name \in {ApiName(offer["type_id"]), <<"ID", offer["type_id"]>>},
              avg_price_per_item \in AveragePricePool :
              IF avg_price_per_item > 0
              THEN LET isk_profit == avg_price_per_item * offer["quantity"] - offer["isk_cost"]
                       isk_per_lp == IF lp_cost > 0 THEN Rat(isk_profit, lp_cost) ELSE Zero
                   IN  call' = [call EXCEPT !.results =
                                   Append(@, [item_name |-> item_name,
                                              isk_per_lp |-> isk_per_lp,
                                              lp_cost |-> lp_cost,
                                              isk_profit |-> isk_profit,
                                              sell_price |-> avg_price_per_item,
                                              quantity |-> offer["quantity"]])]
              ELSE UNCHANGED call
    /\ offer_idx' = offer_idx + 1
    /\ UNCHANGED <<variant, all_offers, error, filtered_offers, item_names, market,
                   statsVars, resultVars, viewVars, report, raised, pc, offer_requests,
                   stats_calls, order_requests>>

\* after the loop: the sort and the table of the first 20 rows, those with a
\* positive ratio
FduPrint ==
    /\ pc = "fdu_offer"
    /\ offer_idx > Len(filtered_offers)
    /\ LET sorted == SortDesc(call.results, "isk_per_lp")
       IN  call' = [call EXCEPT !.results = sorted,
                                !.printed = SelectSeq(Take(sorted, 20),
                                                LAMBDA r : RPos(r["isk_per_lp"]))]
    /\ report' = "results"
    /\ pc' = "done"
    /\ UNCHANGED <<variant, all_offers, error, filtered_offers, item_names, market,
                   offer_idx, statsVars, resultVars, viewVars, raised, requestVars>>

(***************************************************************************)
(* isk_lp_conBPs.py: the three calculations, each run on its own.  A       *)
(* calculation returns <<>> for None and <<row>> for a result.             *)
(***************************************************************************)
\* a ratio computed whatever the sign of the profit
IskPerLp_unclamped(isk_profit, lp_cost) == RDivInt(isk_profit, lp_cost)

\* isk_profit / lp_cost if isk_profit > 0 else 0.0
IskPerLp(isk_profit, lp_cost) ==
    IF RPos(isk_profit) THEN RDivInt(isk_profit, lp_cost) ELSE Zero

\* offers: with and without point cost, ISK cost and a required item
ConOfferPool ==
    { [k \in keys |-> CASE k = "type_id" -> 5
                        [] k = "lp_cost" -> lp
                        [] k = "isk_cost" -> isk
                        [] OTHER -> <<[type_id |-> 34, quantity |-> 1]>>] :
        keys \in { {"type_id"} \cup ks : ks \in SUBSET {"lp_cost", "isk_cost", "required_items"} },
        lp \in {0, 1000}, isk \in {500, 1900} }

\* what get_market_price returns: 0.0 (no price, or a failed request) or a price
ConPricePool == {0, 500, 2000}

\* what get_blueprint_materials returns: (None, None), or the materials and
\* the product id of the answer
ConBomPool ==
    { [materials |-> <<>>, product_type_id |-> 0],
      [materials |-> <<[typeID |-> 34, quantity |-> 1]>>, product_type_id |-> 0],
      [materials |-> <<[typeID |-> 34, quantity |-> 1]>>, product_type_id |-> 9] }

ConRow(item, method, lp_cost, isk_profit, total_isk_cost, sell_price) ==
    <<[Item |-> item, Method |-> method, ISK_LP |-> IskPerLp(isk_profit, lp_cost),
       Profit |-> isk_profit, LP_Cost |-> lp_cost, Total_ISK_Cost |-> total_isk_cost,
       Sell_Price |-> sell_price]>>

\* every get_market_price of one call answers buy_price for a material
calculate_lp_cost_and_profit(offer, buy_price, item_name, sell_price) ==
    LET lp_cost == Get(offer, "lp_cost", 0)
        required_items == Get(offer, "required_items", <<>>)
        total_isk_cost == Get(offer, "isk_cost", 0)
                            + buy_price * Sum([k \in 1..Len(required_items) |->
                                                  required_items[k]["quantity"]])
    IN  IF required_items # <<>> /\ buy_price = 0 THEN <<>>
        ELSE IF sell_price = 0 \/ lp_cost = 0 THEN <<>>
        ELSE ConRow(item_name, "Venta Directa", lp_cost,
                    RSub(RMulInt(AfterTax, sell_price), Int2Rat(total_isk_cost)),
                    total_isk_cost, sell_price)

calculate_bpc_resale_profit(offer, item_name, bpc_resale_price) ==
    LET lp_cost == Get(offer, "lp_cost", 0)
        isk_cost == Get(offer, "isk_cost", 0)
    IN  IF bpc_resale_price = 0 \/ lp_cost = 0 THEN <<>>
        ELSE ConRow(item_name, "Reventa BPC (Contrato Proxy)", lp_cost,
                    Int2Rat(bpc_resale_price - isk_cost), isk_cost, bpc_resale_price)

\* after get_blueprint_materials has returned bom
calculate_bpc_manufacturing_profit(offer, bom, buy_price, product_name, sell_price) ==
    LET lp_cost == Get(offer, "lp_cost", 0)
        total_isk_cost == Get(offer, "isk_cost", 0)
                            + buy_price * Sum([k \in 1..Len(bom.materials) |->
                                                  bom.materials[k]["quantity"]])
    IN  IF bom.materials = <<>> \/ bom.product_type_id = 0 \/ lp_cost = 0 THEN <<>>
        ELSE IF buy_price = 0 THEN <<>>
        ELSE IF sell_price = 0 THEN <<>>
        ELSE ConRow(<<product_name, "(Fabrica)">>, "Fabricacion (BOM + Materiales)", lp_cost,
                    RSub(RMulInt(AfterTax, sell_price), Int2Rat(total_isk_cost)),
                    total_isk_cost, sell_price)

\* a call of one of the three calculations with an offer of the pool
InitCon ==
    \E fn \in {"calculate_lp_cost_and_profit", "calculate_bpc_resale_profit",
               "calculate_bpc_manufacturing_profit"},
       offer \in ConOfferPool :
        InitWith("isk_lp_conBPs.py", "call", <<>>, [fn |-> fn, offer |-> offer])

\* the call returns out
Returns(out) ==
    /\ call' = [fn |-> call.fn, offer |-> call.offer, out |-> out]
    /\ pc' = "returned"
    /\ UNCHANGED <<variant, all_offers, error, filtered_offers, item_names, market,
                   offer_idx, statsVars, resultVars, viewVars, report, requestVars>>

ConNames(t) == {ApiName(t), UnknownItem(t)}

DirectSaleCall ==
    /\ pc = "call" /\ call.fn = "calculate_lp_cost_and_profit"
    /\ \E buy_price \in ConPricePool, sell_price \in ConPricePool,
          item_name \in ConNames(call.offer["type_id"]) :
          Returns(calculate_lp_cost_and_profit(call.offer, buy_price, item_name, sell_price))
    /\ UNCHANGED raised

BpcResaleCall ==
    /\ pc = "call" /\ call.fn = "calculate_bpc_resale_profit"
    /\ \E price \in ConPricePool, item_name \in ConNames(call.offer["type_id"]) :
          Returns(calculate_bpc_resale_profit(call.offer, item_name, price))
    /\ UNCHANGED raised

\* get_blueprint_materials makes its requests outside any try: a failure
\* leaves the calculation as an exception
BpcManufacturingCall ==
    /\ pc = "call" /\ call.fn = "calculate_bpc_manufacturing_profit"
    /\ \/ /\ \E e \in RequestFailures : raised' = e
          /\ UNCHANGED <<variant, call, all_offers, error, filtered_offers, item_names,
                         market, offer_idx, statsVars, resultVars, viewVars, report,
                         requestVars>>
          /\ pc' = "raised"
       \/ /\ \E bom \in ConBomPool, buy_price \in ConPricePool, sell_price \in ConPricePool :
                \E product_name \in ConNames(bom.product_type_id) :
                   Returns(calculate_bpc_manufacturing_profit(call.offer, bom, buy_price,
                                                              product_name, sell_price))
          /\ UNCHANGED raised

(***************************************************************************)
(* get_historical_average_price / get_historical_average_price_single on   *)
(* their own.  The API lists the days it has, oldest first.                *)
(***************************************************************************)
\* n records of consecutive old days, the latest 40 days back
OldDays(n) == [k \in 1..n |-> [date |-> Date(40 + n - k), average |-> 100]]

\* records of the last weeks, one without 'average'
RecentDayPool ==
    { [date |-> Date(31), average |-> 400], [date |-> Date(30), average |-> 131],
      [date |-> Date(1), average |-> 250], [date |-> Date(2)] }

\* what the history request does: it raises, answers no JSON, or answers no
\* old record, 29 or 30 of them, followed by recent ones
HistoryAnswerPool ==
    LookupOutcomes({NotJson} \cup
        { Json(OldDays(n) \o recent) :
             n \in {0, 29, 30}, recent \in SeqsUpTo(RecentDayPool, MaxRecent) })

InitAverage ==
    \E fn \in {"get_historical_average_price", "get_historical_average_price_single"},
       outcome \in HistoryAnswerPool, late \in {0, 1} :
        InitWith("gallente_market_30days.py", "call", <<>>,
                 [fn |-> fn, outcome |-> outcome, late |-> late])

\* the call returns the price, or the price and the error text
HistoricalAverageCall ==
    /\ pc = "call"
    /\ call.fn \in {"get_historical_average_price", "get_historical_average_price_single"}
    /\ LET r == HistoricalAverage(call.outcome)
       IN  /\ avg_price' = r.price
           /\ error' = IF call.fn = "get_historical_average_price" THEN NoError ELSE r.err
    /\ history_requests' = history_requests + 1
    /\ pc' = "returned"
    /\ UNCHANGED <<variant, call, all_offers, filtered_offers, item_names, market,
                   offer_idx, lowest_price, current_sell_price, volume_10d, resultVars,
                   viewVars, report, raised, offer_requests, name_requests, stats_calls,
                   order_requests>>

(***************************************************************************)
(* app.py: POST /api/market-summary.  `call` holds the request being       *)
(* served, the answer and the number of market requests it caused.         *)
(***************************************************************************)
\* JSON values of the field type_id: missing, 0, an integer, a string that
\* is a numeral, another string, a list
TypeIdPool ==
    { [t |-> "missing"], [t |-> "int", v |-> 0], [t |-> "int", v |-> 34],
      [t |-> "numeral", v |-> 34], [t |-> "text"], [t |-> "list"] }

\* JSON bodies of a request: null, a list, or an object with the two fields
\* ("" stands for a missing source_market_name)
SummaryBodyPool ==
    { [kind |-> "null"], [kind |-> "list"] } \cup
    { [kind |-> "dict", type_id |-> tv, source_market_name |-> mv] :
         tv \in TypeIdPool, mv \in {"", "Jita", "Nowhere"} }

\* `not type_id`
Falsy(tv) == tv.t = "missing" \/ (tv.t = "int" /\ tv.v = 0) 

\* what int(type_id) raises
IntRaises(tv) ==
    CASE tv.t = "list" -> "TypeError"
      [] tv.t = "text" -> "ValueError"
      [] OTHER -> NoError

\* the answer of the handler: jsonify({"summary_html": ...}) with a status
Fragment(status, html, lookups) ==
    [raised |-> NoError, status |-> status, json |-> [summary_html |-> html],
     lookups |-> lookups]

\* an exception leaves the handler: the framework answers its own error page
Unhandled(exc, lookups) == [raised |-> exc, status |-> 500, lookups |-> lookups]

\* market_summary_api with get_full_market_summary: history is what the
\* history request of get_market_history_volume does
market_summary_api(data, history) ==
    IF data.kind # "dict" THEN Unhandled("AttributeError", 0)
    ELSE IF Falsy(data.type_id) \/ data.source_market_name = ""
         THEN Fragment(400, <<"Error: ID de Item o Mercado no proporcionado.", "">>, 0)
    ELSE IF IntRaises(data.type_id) = "ValueError"
         THEN Fragment(400, <<"Error: ID de Item invalido.", "">>, 0)
    ELSE IF IntRaises(data.type_id) # NoError THEN Unhandled(IntRaises(data.type_id), 0)
    ELSE IF data.source_market_name \notin { MARKETS[k] : k \in 1..Len(MARKETS) }
         THEN Fragment(500, <<"Error ESI: Mercado fuente no encontrado", data.source_market_name>>,
                       Len(MARKETS))
    ELSE IF history = "malformed" THEN Unhandled("KeyError", Len(MARKETS) + 2)
    ELSE Fragment(200, <<"Resumen de Mercado", data.source_market_name>>, Len(MARKETS) + 2)

\* the application is up and has served nothing
InitWeb == InitWith("app", "idle", <<>>, [fn |-> "None", served |-> 0])

\* one request of /api/market-summary, from its arrival to its answer
MarketSummaryRequest ==
    /\ pc = "idle"
    /\ call.served < MaxRequests
    /\ \E data \in SummaryBodyPool, history \in {"answers", "fails", "malformed"} :
          LET answer == market_summary_api(data, history)
          IN  /\ call' = [fn |-> "market_summary_api", served |-> call.served + 1,
                          data |-> data, answer |-> answer]
              /\ raised' = answer.raised
              /\ order_requests' = order_requests + (IF answer.lookups > Len(MARKETS)
                                                      THEN answer.lookups - 1
                                                      ELSE answer.lookups)
              /\ history_requests' = history_requests + (IF answer.lookups > Len(MARKETS)
                                                          THEN 1 ELSE 0)
    /\ UNCHANGED <<variant, pc, all_offers, error, filtered_offers, item_names, market,
                   offer_idx, statsVars, resultVars, viewVars, report, offer_requests,
                   name_requests, stats_calls>>

(***************************************************************************)
(* isk_lp.py, second script: get_market_price with Amarr as fallback.      *)
(* `call` holds price_type, the regions requested so far and what each     *)
(* request did.                                                            *)
(***************************************************************************)
\* regions_to_check, in the order of the dict
regions_to_check == <<"Jita", "Amarr">>

\* a test that takes a price of 0 for a price
IsPrice_zero_too(price) == price >= 0

\* if price > 0.0
IsPrice(price) == price > 0

\* bodies of the price service: an empty list, an entry without the two
\* keys, prices of 0, two entries with prices, an entry without 'min'/'max'
MarketStatPool ==
    { <<>>,
      <<[typeid |-> 34]>>,
      <<[sell |-> [min |-> 0], buy |-> [max |-> 0]]>>,
      <<[sell |-> [min |-> 1000], buy |-> [max |-> 900]]>>,
      <<[sell |-> [min |-> 2000], buy |-> [max |-> 0]]>>,
      <<[sell |-> [avg |-> 5], buy |-> [avg |-> 5]]>> }

InitPrice ==
    \E price_type \in {"sell", "buy"} :
        InitWith("isk_lp.py (2)", "region", <<>>,
                 [fn |-> "get_market_price", price_type |-> price_type,
                  tried |-> <<>>, log |-> <<>>])

\* one pass of the loop over regions_to_check
TryRegion ==
    /\ pc = "region"
    /\ Len(call.tried) < Len(regions_to_check)
    /\ order_requests' = order_requests + 1
    /\ \E outcome \in LookupOutcomes(MarketStatPool) :
          LET region_name == regions_to_check[Len(call.tried) + 1]
              seen == [call EXCEPT !.tried = Append(@, region_name),
                                   !.log = Append(@, outcome)]
              field == IF call.price_type = "sell" THEN "min" ELSE "max"
              data == outcome.body
          IN  IF outcome.raises \/ data = <<>> \/ call.price_type \notin DOMAIN data[1]
              THEN call' = seen /\ UNCHANGED <<pc, raised>>
              ELSE IF field \notin DOMAIN data[1][call.price_type]
              THEN call' = seen /\ raised' = "KeyError" /\ pc' = "raised"
              ELSE IF IsPrice(data[1][call.price_type][field])
              THEN /\ call' = [fn |-> seen.fn, price_type |-> seen.price_type,
                               tried |-> seen.tried, log |-> seen.log,
                               out |-> <<data[1][call.price_type][field], region_name>>]
                   /\ pc' = "returned"
                   /\ UNCHANGED raised
              ELSE call' = seen /\ UNCHANGED <<pc, raised>>
    /\ UNCHANGED <<variant, all_offers, error, filtered_offers, item_names, market,
                   offer_idx, statsVars, resultVars, viewVars, report, offer_requests,
                   name_requests, stats_calls, history_requests>>

\* return 0.0, None
NoRegionLeft ==
    /\ pc = "region"
    /\ Len(call.tried) = Len(regions_to_check)
    /\ call' = [fn |-> call.fn, price_type |-> call.price_type, tried |-> call.tried,
                log |-> call.log, out |-> <<0, "None">>]
    /\ pc' = "returned"
    /\ UNCHANGED <<variant, all_offers, error, filtered_offers, item_names, market,
                   offer_idx, statsVars, resultVars, viewVars, report, raised,
                   requestVars>>

(***************************************************************************)
(* app.py: the routes /loading, /loading-trading, /analyze and /trading.   *)
(* A URL is the sequence of its pieces, cut so that every word the routes  *)
(* look for is a run of whole pieces; '' is the empty sequence.            *)
(***************************************************************************)
\* part in referrer
Contains(referrer, part) ==
    \E i \in 1..Len(referrer) :
        /\ i + Len(part) - 1 <= Len(referrer)
        /\ SubSeq(referrer, i, i + Len(part) - 1) = part

\* a route that runs its analysis whatever the Referer is
FromLoading_always(referrer, parts) == TRUE

\* any(url_part in referrer for url_part in parts)
FromLoading(referrer, parts) == \E part \in parts : Contains(referrer, part)

\* the Referer of a request: none, the home page, the two loading pages, the
\* two result pages, a page of another site
RefererPool ==
    { <<>>,
      <<"http://host/">>,
      <<"http://host/", "loading">>,
      <<"http://host/", "loading", "-", "trading">>,
      <<"http://host/", "analyze">>,
      <<"http://host/", "trading">>,
      <<"https://other.example/", "trading", "-tips">> }

\* the state after a request has been answered
Served(route, referrer, answer) ==
    call' = [fn |-> route, served |-> call.served + 1, referrer |-> referrer,
             answer |-> answer]

\* /loading and /loading-trading render the loading page
LoadingRequest ==
    /\ pc = "idle"
    /\ call.served < MaxRequests
    /\ \E route \in {"/loading", "/loading-trading"}, referrer \in RefererPool :
          Served(route, referrer,
                 <<"loading.html", IF route = "/loading" THEN "analyze"
                                   ELSE "trading_analysis">>)
    /\ UNCHANGED <<variant, pc, all_offers, error, filtered_offers, item_names, market,
                   offer_idx, statsVars, resultVars, viewVars, report, raised,
                   requestVars>>

\* /analyze: the redirect, or run_market_analysis (which begins with the
\* offers request) and the page with its error or its data
AnalyzeRequest ==
    /\ pc = "idle"
    /\ call.served < MaxRequests
    /\ \E referrer \in RefererPool :
          IF ~FromLoading(referrer, {<<"loading">>, <<"analyze">>})
          THEN /\ Served("/analyze", referrer, <<"redirect", "/loading">>)
               /\ UNCHANGED <<offer_requests, stats_calls>>
          ELSE /\ \E page \in {"error", "data"} :
                     Served("/analyze", referrer, <<"analysis.html", page>>)
               /\ offer_requests' = offer_requests + 1
               /\ stats_calls' = stats_calls + 1
    /\ UNCHANGED <<variant, pc, all_offers, error, filtered_offers, item_names, market,
                   offer_idx, statsVars, resultVars, viewVars, report, raised,
                   name_requests, history_requests, order_requests>>

\* /trading: the redirect, or run_pure_trading_analysis and its page; the
\* run raises KeyError when get_lp_item_list reports an error
TradingRequest ==
    /\ pc = "idle"
    /\ call.served < MaxRequests
    /\ \E referrer \in RefererPool :
          IF ~FromLoading(referrer, {<<"loading", "-", "trading">>, <<"trading">>})
          THEN /\ Served("/trading", referrer, <<"redirect", "/loading-trading">>)
               /\ UNCHANGED <<offer_requests, stats_calls, raised>>
          ELSE /\ \E page \in {"KeyError", "data"} :
                     /\ Served("/trading", referrer, <<"trading_analysis.html", page>>)
                     /\ raised' = IF page = "KeyError" THEN page ELSE NoError
               /\ offer_requests' = offer_requests + 1
               /\ stats_calls' = stats_calls + 1
    /\ UNCHANGED <<variant, pc, all_offers, error, filtered_offers, item_names, market,
                   offer_idx, statsVars, resultVars, viewVars, report, name_requests,
                   history_requests, order_requests>>

(***************************************************************************)
(* The variants of is_material_required: test.py, test2.py and the one of  *)
(* allmarkets+global.py, test3.py and app.py, run on the same offer.       *)
(***************************************************************************)
\* test.py
is_material_required_test(offer) ==
    IF "required_items" \notin DOMAIN offer THEN FALSE
    ELSE \/ \E k \in 1..Len(offer["required_items"]) : IsNotIsk(offer["required_items"][k])
         \/ Len(offer["required_items"]) > 1

\* test2.py without its test of a single entry
is_material_required_test2_count_only(offer) ==
    Len(Get(offer, "required_items", <<>>)) > 1

\* test2.py
is_material_required_test2(offer) ==
    LET required_items == Get(offer, "required_items", <<>>)
    IN  \/ Len(required_items) > 1
        \/ Len(required_items) = 1 /\ IsNotIsk(required_items[1])

\* offers without required_items and with every list of entries
RequiredOfferPool ==
    { [type_id |-> 1, lp_cost |-> 5000] } \cup
    { [type_id |-> 1, lp_cost |-> 5000, required_items |-> r] :
         r \in SeqsUpTo({IskEntry, MatEntry, NoIdEntry}, MaxRequired) }

\* an offer, and no variant run on it yet
InitRequired ==
    \E offer \in RequiredOfferPool :
        InitWith("variants", "call", <<>>,
                 [fn |-> "is_material_required", offer |-> offer, out |-> <<>>])

\* the variant of the file returns value
VariantReturns(file, value) ==
    /\ pc = "call"
    /\ call.fn = "is_material_required"
    /\ file \notin DOMAIN call.out
    /\ call' = [call EXCEPT !.out = Put(@, file, value)]
    /\ UNCHANGED <<variant, pc, all_offers, error, filtered_offers, item_names, market,
                   offer_idx, statsVars, resultVars, viewVars, report, raised,
                   requestVars>>

RequiredTest == VariantReturns("test.py", is_material_required_test(call.offer))
RequiredTest2 == VariantReturns("test2.py", is_material_required_test2(call.offer))
RequiredGlobal == VariantReturns("allmarkets+global.py", is_material_required(call.offer))

(***************************************************************************)
(* run_pure_trading_analysis with many items: the last region of a run in  *)
(* which the earlier regions kept no row                                   *)
(***************************************************************************)
ManyItems ==
    [i \in 1..MaxTradingItems |->
        [type_id |-> i, item_name |-> ApiName(i), quantity |-> 1]]

InitTradingLast ==
    /\ variant = "app"
    /\ call = ItemListReturn([item_data |-> ManyItems], NoError)
    /\ pc = "pair"
    /\ all_offers = <<>>
    /\ error = NoError
    /\ filtered_offers = <<>>
    /\ item_names = <<>>
    /\ market = NumMarkets
    /\ offer_idx = 1
    /\ avg_price = Zero
    /\ lowest_price = Zero
    /\ current_sell_price = Zero
    /\ volume_10d = 0
    /\ result = NoResult
    /\ current_market_results = <<>>
    /\ global_results = <<>>
    /\ market_results = [n \in { MARKETS[k] : k \in 1..Len(MARKETS) } |-> <<>>]
    /\ regional_views = <<>>
    /\ global_max_isk = <<>>
    /\ global_liquidez_media = <<>>
    /\ global_liquidez_alta = <<>>
    /\ report = "None"
    /\ raised = NoError
    /\ offer_requests = 1
    /\ name_requests = 1
    /\ stats_calls = (NumMarkets - 1) * MaxTradingItems
    /\ history_requests = (NumMarkets - 1) * MaxTradingItems
    /\ order_requests = (NumMarkets - 1) * MaxTradingItems

(***************************************************************************)
(* app.py: get_market_history_volume on its own                            *)
(***************************************************************************)
VOLUME_TIMEFRAMES == <<15, 10, 5>>

\* the inner loop, leaving it at the first window that holds the day
AddDay_first_window_only(volumes, day, late) ==
    [d \in DOMAIN volumes |->
        IF /\ InWindow(day["date"]["age"], d, late)
           /\ \A k \in 1..Len(VOLUME_TIMEFRAMES) :
                 InWindow(day["date"]["age"], VOLUME_TIMEFRAMES[k], late)
                    => VOLUME_TIMEFRAMES[k] <= d
        THEN volumes[d] + day["volume"] ELSE volumes[d]]

\* for days_key in VOLUME_TIMEFRAMES: if date_obj >= time_thresholds[days_key]: ...
AddDay(volumes, day, late) ==
    [d \in DOMAIN volumes |->
        IF InWindow(day["date"]["age"], d, late) THEN volumes[d] + day["volume"]
        ELSE volumes[d]]

\* the loop over history_data: the totals, or the exception that ends it
RECURSIVE VolumeLoop(_, _, _)
VolumeLoop(data, late, volumes) ==
    IF data = <<>> THEN [exc |-> NoError, volumes |-> volumes]
    ELSE LET day == Head(data)
         IN  IF "date" \notin DOMAIN day THEN [exc |-> "KeyError"]
             ELSE IF ~day["date"]["valid"] THEN [exc |-> "ValueError"]
             ELSE IF /\ "volume" \notin DOMAIN day
                     /\ \E k \in 1..Len(VOLUME_TIMEFRAMES) :
                           InWindow(day["date"]["age"], VOLUME_TIMEFRAMES[k], late)
                  THEN [exc |-> "KeyError"]
             ELSE IF "volume" \notin DOMAIN day THEN VolumeLoop(Tail(data), late, volumes)
             ELSE VolumeLoop(Tail(data), late, AddDay(volumes, day, late))

\* volumes = {days: 0 for days in VOLUME_TIMEFRAMES}; a failed request
\* leaves it as it is
get_market_history_volume(outcome, late) ==
    LET volumes == [d \in { VOLUME_TIMEFRAMES[k] : k \in 1..Len(VOLUME_TIMEFRAMES) } |-> 0]
    IN  IF outcome.raises THEN [exc |-> NoError, volumes |-> volumes]
        ELSE VolumeLoop(outcome.body, late, volumes)

\* daily records on both sides of the three windows, with and without
\* trades, and two records without 'volume'
VolumeDayPool ==
    { [date |-> Date(age), volume |-> vol] : age \in {3, 5, 10, 15, 16}, vol \in {0, 7} }
      \cup { [date |-> Date(4)], [date |-> Date(20)] }

InitVolume ==
    \E outcome \in LookupOutcomes(SeqsUpTo(VolumeDayPool, MaxDays)), late \in {0, 1} :
        InitWith("app", "call", <<>>,
                 [fn |-> "get_market_history_volume", outcome |-> outcome, late |-> late])

HistoryVolumeCall ==
    /\ pc = "call"
    /\ call.fn = "get_market_history_volume"
    /\ history_requests' = history_requests + 1
    /\ LET r == get_market_history_volume(call.outcome, call.late)
       IN  IF r.exc # NoError
           THEN raised' = r.exc /\ pc' = "raised" /\ UNCHANGED call
           ELSE /\ call' = [fn |-> call.fn, outcome |-> call.outcome, late |-> call.late,
                            volumes |-> r.volumes]
                /\ pc' = "returned"
                /\ UNCHANGED raised
    /\ UNCHANGED <<variant, all_offers, error, filtered_offers, item_names, market,
                   offer_idx, statsVars, resultVars, viewVars, report, offer_requests,
                   name_requests, stats_calls, order_requests>>

(***************************************************************************)
(* Specifications                                                          *)
(***************************************************************************)
Next ==
    \/ FetchOffersFail
    \/ FetchOffersOk
    \/ FilterOffers
    \/ ResolveNames
    \/ BeginMarket
    \/ HistoryLookupFails
    \/ HistoryLookupAnswers
    \/ OrdersLookupFails
    \/ OrdersLookupAnswers
    \/ Compute
    \/ SortMarket
    \/ BuildViews

\* a run of main / run_market_analysis
Spec == Init /\ [][Next]_vars

\* the offer filter applied to every raw list of the pool
NextFilter == FilterOffers
SpecFilter == InitFilter /\ [][NextFilter]_vars

\* the end of a run whose last region collected up to MaxRegionOffers rows
NextRegion == SortMarket \/ BuildViews
SpecRegion == InitRegion /\ [][NextRegion]_vars

\* the same end of a run, twice over
NextTwoRuns == SortMarket \/ BuildViews \/ RunAgain
SpecTwoRuns == InitRegion /\ [][NextTwoRuns]_vars

\* a run of isk_lp.py or of gallente_contracts_BPs.py
NextSingle == SingleFetchFail \/ SingleFetchOk \/ IskLpOffer \/ BpsOffer \/ SinglePrint
SpecSingle == InitSingle /\ [][NextSingle]_vars

\* the order-book lookup on every book of the pool
NextOrders == OrdersLookupFails \/ OrdersLookupAnswers
SpecOrders == InitOrders /\ [][NextOrders]_vars

\* the history statistics of every answer of the pool
NextStats == HistoryStatsCall
SpecStats == InitStats /\ [][NextStats]_vars

\* a run of run_pure_trading_analysis
NextTrading == ItemListFetchFails \/ ItemListFetchOk \/ TradingUnpack \/ TradingPair
SpecTrading == InitTrading /\ [][NextTrading]_vars

\* one view built from every result list of the pool
NextViews == ProcessGlobalCall
SpecViews == InitViews /\ [][NextViews]_vars


\* a run of main of BPs.py
NextFdu == FduFetchFail \/ FduFetchOk \/ FduOffer \/ FduPrint
SpecFdu == InitFdu /\ [][NextFdu]_vars

\* the calculations of isk_lp_conBPs.py on every offer of the pool
NextCon == DirectSaleCall \/ BpcResaleCall \/ BpcManufacturingCall
SpecCon == InitCon /\ [][NextCon]_vars

\* the 30-day average on every answer of the pool
NextAverage == HistoricalAverageCall
SpecAverage == InitAverage /\ [][NextAverage]_vars

\* the web application serving market-summary requests
NextSummary == MarketSummaryRequest
SpecSummary == InitWeb /\ [][NextSummary]_vars

\* a call of get_market_price of the second script of isk_lp.py
NextPrice == TryRegion \/ NoRegionLeft
SpecPrice == InitPrice /\ [][NextPrice]_vars

\* the web application serving page requests
NextRoutes == LoadingRequest \/ AnalyzeRequest \/ TradingRequest
SpecRoutes == InitWeb /\ [][NextRoutes]_vars

\* the three variants of is_material_required on every offer of the pool
NextRequired == RequiredTest \/ RequiredTest2 \/ RequiredGlobal
SpecRequired == InitRequired /\ [][NextRequired]_vars

\* the last region of a pure-trading run with many items
NextTradingLast == TradingPair
SpecTradingLast == InitTradingLast /\ [][NextTradingLast]_vars

\* the multi-window volume of every history of the pool
NextVolume == HistoryVolumeCall
SpecVolume == InitVolume /\ [][NextVolume]_vars

(***************************************************************************)
(* Properties                                                              *)
(***************************************************************************)
Range(f) == { f[x] : x \in DOMAIN f }

\* the entries of required_items of a raw offer (none when the key is absent)
RequiredEntries(o) ==
    IF "required_items" \in DOMAIN o THEN Range(o["required_items"]) ELSE {}

\* some entry names a type other than the base currency
HasNonCurrencyEntry(o) ==
    \E e \in RequiredEntries(o) : "type_id" \in DOMAIN e /\ e["type_id"] # TYPE_ID_ISK

\* required_items is absent, empty, or holds base-currency entries only
OnlyCurrencyEntries(o) ==
    \A e \in RequiredEntries(o) : "type_id" \in DOMAIN e /\ e["type_id"] = TYPE_ID_ISK

HasPositiveLpCost(o) == "lp_cost" \in DOMAIN o /\ o["lp_cost"] > 0

\* the filter has run
Filtered == pc # "fetch" /\ pc # "filter"

\* C1: once the filter has run, every raw offer with a required item other
\* than the base currency (type_id 58) is absent from filtered_offers, and
\* every raw offer with lp_cost > 0 whose required_items is absent, empty or
\* made of type_id 58 entries only (any number of them, whatever isk_cost is)
\* is present in filtered_offers.
C1_OfferFilter ==
    Filtered =>
        \A k \in 1..Len(all_offers) :
            LET o == all_offers[k]
            IN  /\ HasNonCurrencyEntry(o) => o \notin Range(filtered_offers)
                /\ (HasPositiveLpCost(o) /\ OnlyCurrencyEntries(o))
                        => o \in Range(filtered_offers)

\* C1 witness: the filter has accepted an offer with two base-currency
\* entries and isk_cost 0, and rejected an offer that needs a material.
C1_Witness ==
    /\ Filtered
    /\ \E k \in 1..Len(all_offers) :
          /\ Get(all_offers[k], "required_items", <<>>) = <<IskEntry, IskEntry>>
          /\ all_offers[k]["isk_cost"] = 0
          /\ all_offers[k] \in Range(filtered_offers)
    /\ \E k \in 1..Len(all_offers) :
          /\ HasNonCurrencyEntry(all_offers[k])
          /\ HasPositiveLpCost(all_offers[k])
          /\ all_offers[k] \notin Range(filtered_offers)

\* every row the run holds: the last row built and the rows of the lists
RowsHeld ==
    (IF result = NoResult THEN {} ELSE {result})
    \cup Range(current_market_results) \cup Range(global_results)
    \cup UNION { Range(market_results[n]) : n \in DOMAIN market_results }

\* C2: no offer whose lp_cost is absent or 0 is among the offers handed to
\* the profitability computation, and every result row built has
\* lp_cost # 0 and isk_per_lp = isk_profit / lp_cost.
C2_RatioDefined ==
    /\ \A k \in 1..Len(filtered_offers) :
          /\ "lp_cost" \in DOMAIN filtered_offers[k]
          /\ filtered_offers[k]["lp_cost"] # 0
    /\ pc = "compute" => Get(filtered_offers[offer_idx], "lp_cost", 0) # 0
    /\ \A r \in RowsHeld :
          /\ r["lp_cost"] # 0
          /\ RMulInt(r["isk_per_lp"], r["lp_cost"]) = r["isk_profit"]

\* C2 witness: the raw list held an offer without lp_cost next to an
\* accepted one, and a row was built for the accepted one.
C2_Witness ==
    /\ \E k \in 1..Len(all_offers) : "lp_cost" \notin DOMAIN all_offers[k]
    /\ result # NoResult
    /\ global_results # <<>>

\* get_market_stats has returned and the loop body computes this step
Computing == pc = "compute"

\* the pair being computed has a usable price signal
SignalNow == RPos(avg_price) \/ RPos(current_sell_price)

\* the offer of the pair being computed
OfferNow == filtered_offers[offer_idx]

\* the profit the claim prescribes for the pair being computed
PrescribedProfit ==
    LET price_used == IF RPos(avg_price) THEN avg_price ELSE current_sell_price
    IN  RSub(RMulInt(price_used, Get(OfferNow, "quantity", 1)),
             Int2Rat(Get(OfferNow, "isk_cost", 0)))

\* the two scenarios of the specification as rows
IsExampleRow(r, avg, cur) ==
    /\ r["lp_cost"] = 5000
    /\ r["isk_base_cost"] = 1000000
    /\ r["quantity"] = 100
    /\ r["sell_price_avg"] = Int2Rat(avg)
    /\ r["sell_price_current"] = Int2Rat(cur)

\* C3: for every accepted offer and every snapshot with avg_price > 0 or
\* current_sell_price > 0 the row built has isk_profit = price_used *
\* quantity - isk_cost, with price_used = avg_price when avg_price > 0 and
\* current_sell_price otherwise, and isk_per_lp = isk_profit / lp_cost; a row
\* for lp_cost 5000, isk_cost 1,000,000, quantity 100 has ratio 100 at
\* (avg 15000, current 14000) and ratio 80 at (avg 0, current 14000).
C3_Profitability ==
    [][ (Computing /\ SignalNow) =>
            /\ result'["isk_profit"] = PrescribedProfit
            /\ result'["isk_per_lp"] = RDivInt(PrescribedProfit, OfferNow["lp_cost"])
            /\ result'["sell_price_avg"] = avg_price
            /\ result'["sell_price_current"] = current_sell_price
            /\ IsExampleRow(result', 15000, 14000) => result'["isk_per_lp"] = Int2Rat(100)
            /\ IsExampleRow(result', 0, 14000) => result'["isk_per_lp"] = Int2Rat(80)
      ]_vars

\* C3 witness: both scenarios were computed in one run: the rows with ratio
\* 100 (average price used) and ratio 80 (current price used) are retained.
C3_Witness ==
    /\ \E k \in 1..Len(global_results) :
          /\ IsExampleRow(global_results[k], 15000, 14000)
          /\ global_results[k]["isk_per_lp"] = Int2Rat(100)
    /\ result # NoResult
    /\ IsExampleRow(result, 0, 14000)
    /\ result["isk_per_lp"] = Int2Rat(80)

\* C4: a pair whose snapshot has avg_price = 0 and current_sell_price = 0
\* produces no row: no row is built, nothing is added to the market's list
\* or to global_results, and the run goes on with the next pair.
C4_NoSignalNoRow ==
    [][ (Computing /\ avg_price = Zero /\ current_sell_price = Zero) =>
            /\ result' = result
            /\ current_market_results' = current_market_results
            /\ global_results' = global_results
            /\ IF offer_idx < Len(filtered_offers)
               THEN pc' = "history" /\ offer_idx' = offer_idx + 1
               ELSE pc' = "sort"
      ]_vars

\* C4 witness: the first pair of a run had no price signal and the run has
\* moved on to the next pair without a row.
C4_Witness ==
    /\ pc = "history"
    /\ stats_calls = 1
    /\ order_requests = 1
    /\ avg_price = Zero
    /\ current_sell_price = Zero
    /\ result = NoResult
    /\ global_results = <<>>

\* C5 as stated: a pair with a price signal whose ratio is zero or negative
\* still adds its row to global_results and to the market's list.
C5_NonPositiveRetained ==
    [][ (Computing /\ SignalNow /\ ~RPos(RDivInt(PrescribedProfit, OfferNow["lp_cost"]))) =>
            /\ global_results' = Append(global_results, result')
            /\ current_market_results' = Append(current_market_results, result')
      ]_vars

\* C5 amended: a pair with a price signal adds its row to global_results and
\* to the market's list exactly when its ratio is greater than 0; a row with a
\* zero or negative ratio is built and dropped on the spot, so every row of
\* the full result set has isk_per_lp > 0.
C5_OnlyPositiveRetained ==
    [][ (Computing /\ SignalNow) =>
            /\ IF RPos(RDivInt(PrescribedProfit, OfferNow["lp_cost"]))
               THEN /\ global_results' = Append(global_results, result')
                    /\ current_market_results' = Append(current_market_results, result')
               ELSE /\ global_results' = global_results
                    /\ current_market_results' = current_market_results
            /\ \A r \in Range(global_results') \cup Range(current_market_results') :
                  RPos(r["isk_per_lp"])
      ]_vars

\* C5 witness: a second pair of the run had a price signal, traded volume
\* and a ratio of exactly 0; its row was built and is in neither list.
C5_Witness ==
    /\ pc \in {"history", "sort"}
    /\ result # NoResult
    /\ result["isk_per_lp"] = Zero
    /\ result["volume_10d"] > 0
    /\ result \notin Range(global_results)
    /\ result \notin Range(current_market_results)
    /\ stats_calls >= 2

\* C6 as stated: a failed history lookup leaves avg_price, lowest_price and
\* volume_10d at 0, a failed order-book lookup leaves current_sell_price at
\* 0, and every field of a returned snapshot is a finite number >= 0.
C6_ZeroOnFailure ==
    [][ /\ HistoryLookupFails =>
              avg_price' = Zero /\ lowest_price' = Zero /\ volume_10d' = 0
        /\ OrdersLookupFails => current_sell_price' = Zero
        /\ pc' = "compute" =>
              /\ IsFinite(avg_price') /\ RGeq(avg_price', Zero)
              /\ IsFinite(lowest_price') /\ RGeq(lowest_price', Zero)
              /\ IsFinite(current_sell_price') /\ RGeq(current_sell_price', Zero)
              /\ volume_10d' >= 0
      ]_vars

\* C7 as stated: get_market_stats never lets an error out, whatever its two
\* lookups answer, and makes one order-book request per call.
C7_AlwaysReturns ==
    /\ raised = NoError
    /\ pc # "raised"
    /\ pc = "compute" => (history_requests = stats_calls /\ order_requests = stats_calls)


\* the three global views of a run: sort key, threshold, length, rows
GlobalViews ==
    { [sort_key |-> "isk_per_lp", min_lp_filter |-> 0, top_n |-> TOP_N_GLOBAL,
       rows |-> global_max_isk],
      [sort_key |-> "volume_10d", min_lp_filter |-> MIN_ISK_PER_LP_FILTER_LOW,
       top_n |-> TOP_N_VOLUME_FILTER, rows |-> global_liquidez_media],
      [sort_key |-> "volume_10d", min_lp_filter |-> MIN_ISK_PER_LP_FILTER_HIGH,
       top_n |-> TOP_N_VOLUME_FILTER, rows |-> global_liquidez_alta] }

\* the run has produced its views
ViewsBuilt == pc = "done" /\ report = "results"

\* the eligible results of a view, in encounter order
EligibleRows(min_lp_filter) ==
    SelectSeq(global_results,
              LAMBDA r : r["volume_10d"] > 0
                         /\ RGeq(r["isk_per_lp"], Int2Rat(min_lp_filter)))

\* what the deduplication of a view keeps
KeptRows(view) == Dedup(variant, EligibleRows(view.min_lp_filter), view.sort_key)

\* positions of the rows of an item
PositionsOf(rows, name) == { k \in 1..Len(rows) : rows[k]["item_name"] = name }

\* the rows of the example: one item with ratio 80 in one region and 120 in
\* another, both with traded volume
ExampleRow(v, market_name, price, vol) ==
    BuildResult(v, market_name, Annotate(OfferA), <<>>, Int2Rat(price),
                Int2Rat(price), Zero, vol)

\* C8: for every item_name among the eligible results of a view exactly one
\* row of that item is kept, it is one of the eligible rows of the item and
\* its sort key is the maximum over them (a single row represents itself);
\* rows with ratios 80 and 120 for one item leave the 120 row only; the view
\* shows the kept rows.
C8_DedupKeepsMax ==
    /\ \A view \in GlobalViews :
          LET elig == EligibleRows(view.min_lp_filter)
              kept == KeptRows(view)
          IN  /\ \A i \in 1..Len(elig) :
                    LET mine == PositionsOf(kept, elig[i]["item_name"])
                    IN  /\ Cardinality(mine) = 1
                        /\ \A k \in mine :
                              RGeq(KeyOf(kept[k], view.sort_key),
                                   KeyOf(elig[i], view.sort_key))
              /\ \A k \in 1..Len(kept) : kept[k] \in Range(elig)
              /\ (ViewsBuilt /\ Len(kept) <= view.top_n) =>
                    /\ Range(view.rows) = Range(kept)
                    /\ Len(view.rows) = Len(kept)
    /\ \A v \in {"script", "app"} :
          LET row80 == ExampleRow(v, "Jita", 14000, 10)
              row120 == ExampleRow(v, "Dodixie", 16000, 20)
          IN  /\ row80["isk_per_lp"] = Int2Rat(80)
              /\ row120["isk_per_lp"] = Int2Rat(120)
              /\ Dedup(v, <<row80, row120>>, "isk_per_lp") = <<row120>>
              /\ Dedup(v, <<row120, row80>>, "isk_per_lp") = <<row120>>

\* C8 witness: an item had a lower ratio in the first region than in a later
\* one, both rows eligible; the top-ratio view shows two items and, of this
\* item, the later row only.
C8_Witness ==
    /\ ViewsBuilt
    /\ Len(global_max_isk) = 2
    /\ \E i, j \in 1..Len(global_results) :
          /\ i < j
          /\ global_results[i]["item_name"] = global_results[j]["item_name"]
          /\ global_results[i]["volume_10d"] > 0
          /\ global_results[j]["volume_10d"] > 0
          /\ RLess(global_results[i]["isk_per_lp"], global_results[j]["isk_per_lp"])
          /\ global_results[j] \in Range(global_max_isk)
          /\ global_results[i] \notin Range(global_max_isk)

\* C9: the results are met region by region, and within a view the row kept
\* for an item is the first, in that order, of the eligible rows of the item
\* that have the kept sort-key value: an equal later row does not replace it.
C9_FirstWinsOnTie ==
    /\ \A i, j \in 1..Len(global_results) :
          i < j => MarketIndex(global_results[i]["market"])
                       <= MarketIndex(global_results[j]["market"])
    /\ \A view \in GlobalViews :
          LET elig == EligibleRows(view.min_lp_filter)
              kept == KeptRows(view)
          IN  \A k \in 1..Len(kept) :
                 LET ties == { i \in PositionsOf(elig, kept[k]["item_name"]) :
                                  KeyOf(elig[i], view.sort_key)
                                      = KeyOf(kept[k], view.sort_key) }
                 IN  /\ ties # {}
                     /\ kept[k] = elig[CHOOSE i \in ties : \A j \in ties : i <= j]

\* C9 witness: an item had the same ratio in two regions, both rows
\* eligible; the top-ratio view shows the row of the first region.
C9_Witness ==
    /\ ViewsBuilt
    /\ \E i, j \in 1..Len(global_results) :
          /\ i < j
          /\ global_results[i]["item_name"] = global_results[j]["item_name"]
          /\ global_results[i]["market"] # global_results[j]["market"]
          /\ global_results[i]["volume_10d"] > 0
          /\ global_results[j]["volume_10d"] > 0
          /\ global_results[i]["isk_per_lp"] = global_results[j]["isk_per_lp"]
          /\ global_results[i] \in Range(global_max_isk)
          /\ global_results[j] \notin Range(global_max_isk)

\* C10: the rows collected for the region being analysed are the rows of
\* global_results of that region, so global_results is the union of the
\* per-region result lists; every row of every global view is one of them
\* (in the script, a row of a list of market_results) and has volume_10d > 0
\* and isk_per_lp >= the threshold of its view.
C10_ViewsWithinResults ==
    /\ market >= 1 =>
          Range(current_market_results)
              = { r \in Range(global_results) : r["market"] = MARKETS[market] }
    /\ \A n \in DOMAIN market_results :
          Range(market_results[n]) \subseteq Range(global_results)
    /\ ViewsBuilt =>
          \A view \in GlobalViews :
             \A r \in Range(view.rows) :
                /\ r \in Range(global_results)
                /\ variant = "script" =>
                      \E n \in DOMAIN market_results : r \in Range(market_results[n])
                /\ r["volume_10d"] > 0
                /\ RGeq(r["isk_per_lp"], Int2Rat(view.min_lp_filter))

\* C10 witness: the three views are not empty, the two liquidity views
\* differ, and a retained row without traded volume is in none of them.
C10_Witness ==
    /\ ViewsBuilt
    /\ global_max_isk # <<>>
    /\ global_liquidez_alta # <<>>
    /\ global_liquidez_media # global_liquidez_alta
    /\ \E r \in Range(global_results) : r["volume_10d"] = 0

\* a view has been built on its own
ViewCalled == pc = "returned" /\ call.fn = "process_global"

\* the eligible rows of the call, and the item names among rows
CallEligible ==
    SelectSeq(call.results,
              LAMBDA r : r["volume_10d"] > 0
                         /\ RGeq(r["isk_per_lp"], Int2Rat(call.min_lp_filter)))
ItemsOf(rows) == { rows[k]["item_name"] : k \in 1..Len(rows) }

\* C11: a global view has at most top_n rows and as many rows as there are
\* eligible items when these are fewer; it has at most one row per item_name;
\* adjacent rows never increase in the sort key; every row is the eligible
\* row of its item with the greatest sort key; and no row of an item left
\* out of the view has a sort key strictly greater than a row of the view.
C11_ViewIsTopN ==
    ViewCalled =>
        LET out == call.out
            elig == CallEligible
            items == ItemsOf(elig)
            Key(r) == KeyOf(r, call.sort_key)
        IN  /\ Len(out) <= call.top_n
            /\ Len(out) = IF Cardinality(items) <= call.top_n
                          THEN Cardinality(items) ELSE call.top_n
            /\ \A i, j \in 1..Len(out) :
                  i # j => out[i]["item_name"] # out[j]["item_name"]
            /\ \A i \in 1..(Len(out) - 1) : RGeq(Key(out[i]), Key(out[i + 1]))
            /\ \A i \in 1..Len(out) :
                  /\ out[i] \in Range(elig)
                  /\ \A e \in Range(elig) :
                        e["item_name"] = out[i]["item_name"] => RGeq(Key(out[i]), Key(e))
            /\ \A e \in Range(elig) :
                  e["item_name"] \notin ItemsOf(out) =>
                      \A i \in 1..Len(out) : RLeq(Key(e), Key(out[i]))

\* C11 witness: a view of two rows was cut out of the rows of three eligible
\* items, and its two rows have different keys.
C11_Witness ==
    /\ ViewCalled
    /\ call.top_n = 2
    /\ Len(call.out) = 2
    /\ Cardinality(ItemsOf(CallEligible)) = 3
    /\ Len(CallEligible) = 3
    /\ KeyOf(call.out[1], call.sort_key) # KeyOf(call.out[2], call.sort_key)

\* the rows of a view are in non-increasing order of isk_per_lp
RatioNeverIncreases(rows) ==
    \A i \in 1..(Len(rows) - 1) : RGeq(rows[i]["isk_per_lp"], rows[i + 1]["isk_per_lp"])

\* C12 as stated: every row of the view of a region is a row of that region
\* with volume_10d > 0 and a ratio >= 0; the view never increases in
\* isk_per_lp and has at most TOP_N_REGIONAL rows.
C12_RegionalViewEligible ==
    ViewsBuilt =>
        \A n \in DOMAIN regional_views :
            /\ \A r \in Range(regional_views[n]) :
                  /\ r["market"] = n
                  /\ r["volume_10d"] > 0
                  /\ RGeq(r["isk_per_lp"], Zero)
            /\ RatioNeverIncreases(regional_views[n])
            /\ Len(regional_views[n]) <= TOP_N_REGIONAL

\* C12 amended: every row of the view of a region is a row of that region
\* with a ratio > 0, whatever its volume_10d is (no volume test is applied to
\* a per-market view); the view never increases in isk_per_lp, has at most
\* TOP_N_REGIONAL rows, and holds the first rows of the region's sorted list.
C12_RegionalView ==
    /\ ViewsBuilt =>
          \A n \in DOMAIN regional_views :
              /\ \A r \in Range(regional_views[n]) :
                    /\ r["market"] = n
                    /\ r \in Range(global_results)
                    /\ RPos(r["isk_per_lp"])
                    /\ r["volume_10d"] >= 0
              /\ RatioNeverIncreases(regional_views[n])
              /\ Len(regional_views[n]) <= TOP_N_REGIONAL
              /\ LET mine == { r \in Range(global_results) : r["market"] = n }
                 IN  /\ Cardinality(mine) <= TOP_N_REGIONAL
                        => Range(regional_views[n]) = mine
                     /\ \A r \in mine :
                           r \notin Range(regional_views[n]) =>
                               \A k \in 1..Len(regional_views[n]) :
                                   RLeq(r["isk_per_lp"], regional_views[n][k]["isk_per_lp"])

\* C12 witness: a region collected more than TOP_N_REGIONAL rows, its view
\* shows TOP_N_REGIONAL of them with different ratios, and one of the rows
\* shown has no traded volume.
C12_Witness ==
    /\ ViewsBuilt
    /\ \E n \in DOMAIN regional_views :
          /\ Len(regional_views[n]) = TOP_N_REGIONAL
          /\ Cardinality({ r \in Range(global_results) : r["market"] = n }) > TOP_N_REGIONAL
          /\ regional_views[n][1]["isk_per_lp"]
                 # regional_views[n][TOP_N_REGIONAL]["isk_per_lp"]
          /\ \E r \in Range(regional_views[n]) : r["volume_10d"] = 0

\* the messages get_lp_store_offers_esi can return
OfferErrorMessages == { OfferErrorMessage(e) : e \in RequestFailures }

\* C13: the offer fetch makes one GET; when the request fails (network
\* failure or non-2xx status) it returns the empty list with a non-empty
\* error message; when it succeeds it returns the parsed list with None; it
\* never returns a non-empty list together with an error and never raises.
C13_OfferFetch ==
    [][ pc = "fetch" =>
            /\ offer_requests' = offer_requests + 1
            /\ offer_requests' = 1
            /\ raised' = NoError
            /\ pc' # "raised"
            /\ FetchOffersFail =>
                  /\ all_offers' = <<>>
                  /\ error' \in OfferErrorMessages
                  /\ error' # NoError
                  /\ error' # ""
            /\ FetchOffersOk =>
                  /\ error' = NoError
                  /\ all_offers' \in SeqsUpTo(OfferPool, MaxOffers)
            /\ ~(all_offers' # <<>> /\ error' # NoError)
      ]_vars

\* C13 witness: the request has failed with a timeout and the function has
\* returned the empty list with the message of that failure.
C13_Witness ==
    /\ offer_requests = 1
    /\ all_offers = <<>>
    /\ error = OfferErrorMessage("Timeout")
    /\ raised = NoError

\* the offer fetch of the run has failed
FetchFailed == error # NoError

\* C14: once the offer fetch has failed the run is over and the error
\* message is its only outcome: it has made no name-resolution request and
\* no market lookup, holds no result row and no view, and takes no further
\* step.
C14_FetchFailureEndsRun ==
    /\ [](FetchFailed =>
            /\ pc = "done"
            /\ report = "fetch_error"
            /\ error \in OfferErrorMessages
            /\ raised = NoError
            /\ name_requests = 0
            /\ stats_calls = 0 /\ history_requests = 0 /\ order_requests = 0
            /\ filtered_offers = <<>> /\ item_names = <<>>
            /\ result = NoResult
            /\ current_market_results = <<>> /\ global_results = <<>>
            /\ market_results = <<>> /\ regional_views = <<>>
            /\ global_max_isk = <<>> /\ global_liquidez_media = <<>>
            /\ global_liquidez_alta = <<>>)
    /\ [][FetchFailed => UNCHANGED vars]_vars

\* C14 witness: a run of app.py has ended on a failed offer fetch (a non-2xx
\* status) after its single request.
C14_Witness ==
    /\ variant = "app"
    /\ pc = "done"
    /\ report = "fetch_error"
    /\ error = OfferErrorMessage("HTTPError")
    /\ offer_requests = 1
    /\ name_requests = 0

\* get_lp_item_list has handed back an error dict: the offer fetch failed
\* or no offer passed the filter
ItemListFailed ==
    /\ call # NoCall
    /\ call.fn = "run_pure_trading_analysis"
    /\ "error" \in DOMAIN call.item_data_result

\* C15 as stated: when the offer fetch fails or no offer passes the filter,
\* run_pure_trading_analysis returns a result carrying the error message,
\* makes no market lookup and raises no exception.
C15_TradingErrorReturned ==
    ItemListFailed =>
        /\ stats_calls = 0 /\ history_requests = 0 /\ order_requests = 0
        /\ raised = NoError
        /\ pc # "raised"
        /\ pc = "done" => report = call.item_data_result["error"]

\* the name request of the run has been answered or has failed
NamesResolved == pc \notin {"fetch", "filter", "names"} /\ filtered_offers # <<>>

\* the ids the batch request asked for
RequestedIds == { filtered_offers[k]["type_id"] : k \in 1..Len(filtered_offers) }

\* C16 as stated: after name resolution the mapping holds a name for every
\* requested id (the request succeeded) or is empty (it failed in any way,
\* a malformed entry anywhere in the response included); no exception
\* reaches the caller; and every row of an item without an entry carries the
\* label built from the id.
C16_NamesAllOrNothing ==
    NamesResolved =>
        /\ item_names = <<>> \/ DOMAIN item_names = RequestedIds
        /\ pc = "market" /\ market = 0 => raised = NoError
        /\ \A r \in RowsHeld :
              \E k \in 1..Len(filtered_offers) :
                 LET t == filtered_offers[k]["type_id"]
                 IN  /\ r["item_name"] = (IF t \in DOMAIN item_names THEN ApiName(t)
                                          ELSE SyntheticLabel(t))

\* the second of two runs on the same input has produced its views
SecondRunDone == ViewsBuilt /\ call # NoCall /\ call.fn = "run_market_analysis"

Filtering == pc = "filter"

\* a raw offer the filter accepts
Acceptable(o) == HasPositiveLpCost(o) /\ OnlyCurrencyEntries(o)

\* the strictly increasing index maps from an output of length m into an
\* input of length n
OrderMaps(m, n) ==
    { f \in [1..m -> 1..n] : \A i, j \in 1..m : i < j => f[i] < f[j] }

EndedFatal == pc = "done" /\ report = "fatal"

\* C19 as stated: in isk_lp.py and gallente_contracts_BPs.py only a failure
\* of the offers request ends the run; when a lookup for one offer fails
\* (the order-book request of get_market_sell_price, a request inside
\* get_blueprint_materials) the remaining offers are still processed and the
\* ranked results of the other offers are printed.
C19_ItemLookupFailureNotFatal ==
    /\ EndedFatal => (error # NoError /\ raised = NoError)
    /\ (pc = "done" /\ error = NoError) =>
          /\ offer_idx = Len(all_offers) + 1
          /\ report \in {"results", "no_results"}
          /\ report = "results" <=> call.results # <<>>
          /\ variant = "isk_lp" => call.printed = Take(call.results, 5)

\* the history statistics have been computed on their own
StatsCalled == pc = "returned" /\ call.fn = "get_market_stats"

\* the records of the answer dated within the trailing window of so many
\* days: not before the instant that many days ago (a date is its midnight)
DaysWithin(days) ==
    { k \in 1..Len(call.history_data) :
         call.history_data[k]["date"]["age"] + call.late <= days }

\* the sum of a field over the records of a set
FieldTotal(S, field) ==
    Sum([k \in 1..Len(call.history_data) |->
            IF k \in S THEN call.history_data[k][field] ELSE 0])

\* C20: for a successful history response avg_price is the mean of
\* 'average' over the records within the trailing 30-day window,
\* lowest_price the minimum of 'lowest' over the same records, and
\* volume_10d the sum of 'volume' over the records within the trailing
\* 10-day window; when no record is within the 30-day window all three are 0.
C20_HistoryStatistics ==
    StatsCalled =>
        LET in30 == DaysWithin(HISTORY_DAYS)
            in10 == DaysWithin(VOLUME_DAYS)
        IN  /\ volume_10d = FieldTotal(in10, "volume")
            /\ IF in30 = {}
               THEN avg_price = Zero /\ lowest_price = Zero /\ volume_10d = 0
               ELSE /\ RMulInt(avg_price, Cardinality(in30))
                          = Int2Rat(FieldTotal(in30, "average"))
                    /\ \E k \in in30 :
                          lowest_price = Int2Rat(call.history_data[k]["lowest"])
                    /\ \A k \in in30 :
                          RLeq(lowest_price, Int2Rat(call.history_data[k]["lowest"]))

\* C20 witness: an answer of three records, one within the 10-day window,
\* one more within the 30-day window only and one outside; the mean is not
\* one of the daily averages.
C20_Witness ==
    /\ StatsCalled
    /\ Len(call.history_data) = 3
    /\ Cardinality(DaysWithin(VOLUME_DAYS)) = 1
    /\ Cardinality(DaysWithin(HISTORY_DAYS)) = 2
    /\ \A k \in 1..3 : avg_price # Int2Rat(call.history_data[k]["average"])
    /\ volume_10d > 0

\* the order lookup has been run on a book of its own
BookLookedUp == pc = "compute" /\ "data" \in DOMAIN call

\* the positions of the orders of the book with a price above 0, all of
\* them or the sell orders only
PricedOrders(sellOnly) ==
    { k \in 1..Len(call.data) :
         /\ "price" \in DOMAIN call.data[k] /\ call.data[k]["price"] > 0
         /\ sellOnly => call.data[k]["is_buy_order"] = FALSE }

\* x is the least price of the orders at the positions S, or 0 without any
LeastPriceOf(x, S) ==
    IF S = {} THEN x = Zero
    ELSE /\ \E k \in S : x = Int2Rat(call.data[k]["price"])
         /\ \A k \in S : RLeq(x, Int2Rat(call.data[k]["price"]))

\* C21 (as stated): after an answered order request current_sell_price is the
\* least price of the sell orders priced above 0 of the response, 0 without
\* such an order, whatever buy orders the response holds.
C21_BestSellPrice ==
    [][OrdersLookupAnswers /\ "data" \in DOMAIN call
          => LeastPriceOf(current_sell_price', PricedOrders(TRUE))]_vars

\* C21 (what both variants guarantee): current_sell_price is the least price of the orders priced
\* above 0 that the variant counts, 0 without any: app.py counts the sell
\* orders only, so buy orders never change the value there; the script counts
\* every order of the response to its order_type=sell request.
C21_BestCountedPrice ==
    [][OrdersLookupAnswers /\ "data" \in DOMAIN call
          => LeastPriceOf(current_sell_price', PricedOrders(variant = "app"))]_vars

\* C21 witness: app.py has answered a book with two priced sell orders and a
\* cheaper buy order with the cheaper of the sell orders.
C21_Witness ==
    /\ BookLookedUp
    /\ variant = "app"
    /\ Cardinality(PricedOrders(TRUE)) = 2
    /\ Cardinality(PricedOrders(FALSE)) = 3
    /\ current_sell_price = Int2Rat(12000)

\* the rows main of BPs.py has computed so far
FduRows == IF variant = "BPs.py" THEN call.results ELSE <<>>

\* C22: in BPs.py every offer returned by get_lp_store_offers has
\* lp_cost > 0, so that no offer without point cost reaches the computation
\* of main and no result row has lp_cost = 0.
C22_NoZeroPointCost ==
    variant = "BPs.py" =>
        /\ \A k \in 1..Len(filtered_offers) : filtered_offers[k]["lp_cost"] > 0
        /\ \A k \in 1..Len(FduRows) : FduRows[k]["lp_cost"] # 0

\* a calculation of isk_lp_conBPs.py has returned a result row
ConReturnedRow ==
    /\ variant = "isk_lp_conBPs.py"
    /\ pc = "returned"
    /\ call.out # <<>>

AverageReturned ==
    /\ variant = "gallente_market_30days.py"
    /\ pc = "returned"
    /\ ~call.outcome.raises
    /\ call.outcome.body.json

\* C24: for every history response the value returned by
\* get_historical_average_price (and its _single form) is the mean of the
\* daily 'average' of the records dated within the last 30 days, and 0.0
\* when no record is dated within the last 30 days.
C24_ThirtyDayMean ==
    AverageReturned =>
        LET data == call.outcome.body.data
            in30 == { k \in 1..Len(data) :
                         data[k]["date"]["age"] + call.late <= HISTORY_DAYS }
            total == Sum([k \in 1..Len(data) |->
                             IF k \in in30 THEN Get(data[k], "average", 0) ELSE 0])
        IN  IF in30 = {} THEN avg_price = Zero
            ELSE RMulInt(avg_price, Cardinality(in30)) = Int2Rat(total)

\* the last request served was one of /api/market-summary
SummaryServed == call.fn = "market_summary_api"

\* C25: every request of the market-summary endpoint is answered with a JSON
\* object that has the key summary_html and the handler never raises; a
\* request without item id or source market, or with an item id that is no
\* integer, gets status 400 and causes no market lookup; a request naming a
\* market that is not configured gets an error fragment.
C25_SummaryAlwaysAnswers ==
    SummaryServed =>
        /\ call.answer.raised = NoError
        /\ "json" \in DOMAIN call.answer
        /\ "summary_html" \in DOMAIN call.answer.json
        /\ (\/ call.data.kind # "dict"
            \/ Falsy(call.data.type_id)
            \/ call.data.source_market_name = ""
            \/ call.data.type_id.t \notin {"int", "numeral"})
              => call.answer.status = 400 /\ call.answer.lookups = 0
        /\ (call.data.kind = "dict" /\ call.data.source_market_name = "Nowhere"
              /\ call.answer.status # 400)
              => call.answer.status = 500

\* get_market_price of the second script of isk_lp.py is running or over
PriceCall == call.fn = "get_market_price"
PriceReturned == PriceCall /\ pc = "returned"

\* the price above 0 that the k-th request yielded, 0 when it failed or
\* answered no such price
Yielded(k) ==
    LET o == call.log[k]
        side == call.price_type
    IN  IF o.raises \/ o.body = <<>> THEN 0
        ELSE IF side \notin DOMAIN o.body[1] THEN 0
        ELSE LET p == o.body[1][side][IF side = "sell" THEN "min" ELSE "max"]
             IN  IF p > 0 THEN p ELSE 0

\* C26: get_market_price tries Jita, then Amarr; the Amarr price is returned
\* only if the Jita lookup failed or gave no price above 0; the result is
\* (0.0, None) exactly when neither region yields a price above 0; a failed
\* request for one region never keeps the other region from being tried.
C26_JitaThenAmarr ==
    /\ PriceCall =>
          /\ call.tried \in {<<>>, <<"Jita">>, <<"Jita", "Amarr">>}
          /\ order_requests = Len(call.tried)
    /\ PriceReturned =>
          /\ call.out[2] = "Jita" <=> Yielded(1) > 0
          /\ call.out[2] = "Jita" => call.out[1] = Yielded(1) /\ Len(call.tried) = 1
          /\ call.out[2] = "Amarr" =>
                Len(call.tried) = 2 /\ Yielded(1) = 0 /\ call.out[1] = Yielded(2)
                   /\ Yielded(2) > 0
          /\ call.out = <<0, "None">> <=>
                (Len(call.tried) = 2 /\ Yielded(1) = 0 /\ Yielded(2) = 0)
          /\ call.log[1].raises => Len(call.tried) = 2

\* C26 witness: the request for Jita failed and the price of Amarr has been
\* returned.
C26_Witness ==
    /\ PriceReturned
    /\ call.log[1].raises
    /\ call.out = <<1000, "Amarr">>

\* the Referer of the last request holds the word
RefererHas(word) ==
    \E i \in 1..Len(call.referrer) : call.referrer[i] = word

\* the last request is one that may start the analysis of its route: its
\* Referer names the loading page or the result page
CameFromLoading ==
    \/ call.fn = "/analyze" /\ (RefererHas("loading") \/ RefererHas("analyze"))
    \/ call.fn = "/trading" /\ RefererHas("trading")

\* C27: /analyze starts its analysis only for a request whose Referer
\* contains 'loading' or 'analyze', /trading only for one whose Referer
\* contains 'loading-trading' or 'trading'; any other request, also one
\* without Referer, is answered with a redirect to the loading page of the
\* route; along any sequence of requests no step starts an analysis (or makes
\* an external request) unless it serves such a request.
C27_AnalysisOnlyFromLoading ==
    /\ [](call.fn \in {"/analyze", "/trading"} =>
            IF CameFromLoading
            THEN call.answer[1] \in {"analysis.html", "trading_analysis.html"}
            ELSE call.answer = <<"redirect", IF call.fn = "/analyze" THEN "/loading"
                                             ELSE "/loading-trading">>)
    /\ [][(stats_calls' # stats_calls \/ requestVars' # requestVars)
             => (CameFromLoading' /\ call.served' = call.served + 1)]_vars

\* C27 witness: a request of /trading without a Referer has been redirected
\* after an earlier request had started an analysis.
C27_Witness ==
    /\ call.fn = "/trading"
    /\ call.referrer = <<>>
    /\ call.answer[1] = "redirect"
    /\ stats_calls = 1

\* the three variants of is_material_required have answered for the offer
VariantsAnswered ==
    /\ call.fn = "is_material_required"
    /\ DOMAIN call.out = {"test.py", "test2.py", "allmarkets+global.py"}

\* the offer has two or more required items and each of them has type_id 58
OnlyIskTwice ==
    /\ "required_items" \in DOMAIN call.offer
    /\ Len(call.offer["required_items"]) >= 2
    /\ \A k \in 1..Len(call.offer["required_items"]) :
          /\ "type_id" \in DOMAIN call.offer["required_items"][k]
          /\ call.offer["required_items"][k]["type_id"] = 58

\* C28: test.py and test2.py return the same value for every offer, and they
\* differ from the variant of allmarkets+global.py / test3.py / app.py exactly
\* on the offers with two or more required items all of type_id 58, where
\* the count-based variants say 'material required' and the other does not.
C28_VariantsOfMaterialRule ==
    VariantsAnswered =>
        /\ call.out["test.py"] = call.out["test2.py"]
        /\ call.out["test.py"] # call.out["allmarkets+global.py"] <=> OnlyIskTwice
        /\ OnlyIskTwice => call.out["test.py"] /\ ~call.out["allmarkets+global.py"]

\* C28 witness: the three variants have answered for an offer that requires
\* ISK twice, the count-based ones with True and the other with False.
C28_Witness ==
    /\ VariantsAnswered
    /\ Get(call.offer, "required_items", <<>>) = <<IskEntry, IskEntry>>
    /\ call.out["test2.py"]
    /\ ~call.out["allmarkets+global.py"]

\* the rows the pure-trading analysis holds for a region
TradingRows(name) ==
    IF call.fn = "run_pure_trading_analysis" /\ name \in DOMAIN market_results
    THEN market_results[name] ELSE <<>>

\* C29: every row the pure-trading analysis reports for a market has
\* max_buy_price > 0, min_sell_price > max_buy_price, volume_10d > 0 and
\* spread_percent >= 2 with spread_percent =
\* 100 * (min_sell_price - max_buy_price) / max_buy_price; the list of each
\* market is in non-increasing order of profitability_score and has at most
\* TOP_N_TRADING rows.
C29_TradingRows ==
    \A i \in 1..Len(MARKETS) :
        LET rows == TradingRows(MARKETS[i])
        IN  /\ \A k \in 1..Len(rows) :
                  /\ rows[k]["max_buy_price"] > 0
                  /\ rows[k]["min_sell_price"] > rows[k]["max_buy_price"]
                  /\ rows[k]["volume_10d"] > 0
                  /\ RGeq(rows[k]["spread_percent"], Int2Rat(2))
                  /\ RMulInt(rows[k]["spread_percent"], rows[k]["max_buy_price"])
                       = Int2Rat(100 * (rows[k]["min_sell_price"] - rows[k]["max_buy_price"]))
            /\ (pc = "done" /\ report = "results") =>
                  /\ Len(rows) <= 5
                  /\ \A k \in 1..(Len(rows) - 1) :
                        RGeq(rows[k]["profitability_score"], rows[k + 1]["profitability_score"])

\* C29 witness: a finished run reports the full five rows for its last
\* market, the first with a higher score than the last, after every one of
\* the items has been looked up there.
C29_Witness ==
    /\ call.fn = "run_pure_trading_analysis"
    /\ pc = "done"
    /\ report = "results"
    /\ offer_idx = MaxTradingItems
    /\ LET rows == TradingRows(MARKETS[NumMarkets])
       IN  /\ Len(rows) = TOP_N_TRADING
           /\ RGreater(rows[1]["profitability_score"], rows[5]["profitability_score"])

\* get_market_history_volume has returned its totals
VolumesReturned == call.fn = "get_market_history_volume" /\ pc = "returned"

\* the sum of 'volume' over the records of the answer dated within the
\* trailing window of so many days
WindowVolume(days) ==
    LET data == call.outcome.body
    IN  Sum([k \in 1..Len(data) |->
                IF data[k]["date"]["age"] + call.late <= days
                THEN data[k]["volume"] ELSE 0])

\* C30: for a history response with non-negative daily volumes the totals
\* returned by get_market_history_volume satisfy
\* volumes[15] >= volumes[10] >= volumes[5], each total is the sum of
\* 'volume' over the records dated within its window, and all three totals
\* are 0 when the history request fails.
C30_MultiWindowVolume ==
    VolumesReturned =>
        /\ DOMAIN call.volumes = {5, 10, 15}
        /\ call.volumes[15] >= call.volumes[10]
        /\ call.volumes[10] >= call.volumes[5]
        /\ IF call.outcome.raises
           THEN \A d \in {5, 10, 15} : call.volumes[d] = 0
           ELSE \A d \in {5, 10, 15} : call.volumes[d] = WindowVolume(d)

\* C30 witness: totals that differ for the three windows have been returned.
C30_Witness ==
    /\ VolumesReturned
    /\ call.volumes[15] > call.volumes[10]
    /\ call.volumes[10] > call.volumes[5]
    /\ call.volumes[5] > 0

====
